---- MODULE Spec2Model ----
(***************************************************************************)
(* The reconciliation engine (EnterpriseHotelRoomMappingService) over an   *)
(* abstract transactional datastore.  Every public method is one action;  *)
(* a method that runs inside prisma.$transaction is one atomic step, and   *)
(* a transaction whose callback throws leaves the datastore untouched.    *)
(***************************************************************************)
EXTENDS Integers, Sequences, FiniteSets, TLC

\* rooms, roomMappings, conflicts, enrichments: the tables of the datastore;
\* events: the conflict:resolved events emitted so far; clock: the time
\* new Date() reads; lastOp: the last call, its arguments and its outcome.
VARIABLES rooms, roomMappings, conflicts, enrichments, events, clock, lastOp

\* txs: the mapRoom calls in flight, each with the position of its
\* transaction callback and the callback's local variables; isolation: what
\* the datastore's $transaction provides; recalc: the position of a running
\* bulkRecalculateQualityScores and its local variables; finished: the rooms
\* of the feed, by their number in delivered, whose onRoom callback of the
\* ingestion script has returned from mapRoom.
VARIABLES txs, isolation, recalc, finished

\* The local variables of HotelRoomFeedParser.parse, under their names;
\* openElements: the elements the tokenizer has open, innermost last, each with
\* its tag, the number of the event that opened it and, for a room element,
\* the name the document has given it so far and the elements that have
\* closed in it (contents); sinceOpenTag: the text the
\* tokenizer has reported since the most recent open tag; eventCount: the
\* events reported so far; delivered: the calls of onRoomFound so far;
\* settled: the state of the promise parse returned; stream: the state of
\* the Readable the parser reads.
VARIABLES currentHotelId, currentRoom, currentRate, currentSourceId, currentTag,
          textBuffer, openElements, sinceOpenTag, eventCount, delivered, settled,
          stream

store == <<rooms, roomMappings, conflicts, enrichments>>

callVars == <<txs, isolation, recalc, finished>>

parserVars == <<currentHotelId, currentRoom, currentRate, currentSourceId, currentTag,
                textBuffer, openElements, sinceOpenTag, eventCount, delivered, settled,
                stream>>

vars == <<rooms, roomMappings, conflicts, enrichments, events, clock, lastOp,
          txs, isolation, recalc, finished,
          currentHotelId, currentRoom, currentRate, currentSourceId, currentTag,
          textBuffer, openElements, sinceOpenTag, eventCount, delivered, settled,
          stream>>

\* ------------------------------------------------------------------ bounds

\* Number of engine calls in one behaviour; the logical clock (new Date())
\* advances by one per call.
MaxClock == 4

\* The tokenizer events of one feed document
MaxEvents == 8

\* The depth of the elements of one feed document
MaxDepth == 3

\* ------------------------------------------------------- program constants

\* options.confidence default 0.8, in tenths
DefaultConfidence == 8

\* maxOccupancy of a created Room when the record carries none
DefaultMaxOccupancy == 2

\* ------------------------------------------------------------- JS values

\* undefined / null
None == <<>>

Some(v) == <<v>>

\* The number NaN, which parseInt gives for text that does not start with a
\* numeral
NaN == -999

\* JS truthiness of an optional number: undefined, 0 and NaN are falsy
TruthyNum(x) == x # None /\ x[1] # 0 /\ x[1] # NaN

\* JS truthiness of a string
TruthyStr(s) == s # ""

\* Array.prototype.findIndex / findFirst over the rows' predicate values,
\* 1-based; 0 when the predicate holds of no row
FindIndex(holds) ==
    IF \E i \in 1..Len(holds) : holds[i]
    THEN CHOOSE i \in 1..Len(holds) : holds[i] /\ \A j \in 1..(i - 1) : ~holds[j]
    ELSE 0

\* Array.prototype.join(', ') over strings
RECURSIVE JoinComma(_)
JoinComma(s) ==
    IF Len(s) = 0 THEN ""
    ELSE IF Len(s) = 1 THEN s[1]
    ELSE s[1] \o ", " \o JoinComma(Tail(s))

\* Array.prototype.filter(Boolean) over strings
RECURSIVE FilterTruthy(_)
FilterTruthy(s) ==
    IF Len(s) = 0 THEN <<>>
    ELSE IF TruthyStr(s[1]) THEN <<s[1]>> \o FilterTruthy(Tail(s))
    ELSE FilterTruthy(Tail(s))

\* ----------------------------------------------------------------- inputs

\* provider_c is a source whose hotels have not been mapped yet
Sources == {"provider_a", "provider_b", "provider_c"}

HotelSourceIds == {"h_src_1"}

RoomSourceIds == {"r_src_1"}

\* The HotelMapping table: read-only to the engine, unique per (source, sourceId).
\* Its source column is any string the hotel-mapping process wrote: one row
\* is a source registered under the name "internal", the last is the hotel
\* the feed ingestion script maps its rooms under
HotelMappings ==
    { [id |-> "hm_a", source |-> "provider_a", sourceId |-> "h_src_1", hotelId |-> "h_1"],
      [id |-> "hm_b", source |-> "provider_b", sourceId |-> "h_src_1", hotelId |-> "h_1"],
      [id |-> "hm_b2", source |-> "provider_b", sourceId |-> "h_src_2", hotelId |-> "h_2"],
      [id |-> "hm_i", source |-> "internal", sourceId |-> "h_src_1", hotelId |-> "h_1"],
      [id |-> "hm_x", source |-> "xml_feed_provider", sourceId |-> "H100", hotelId |-> "h_1"] }

Photo1 == <<[url |-> "http://example.com/1.jpg"]>>

Amenity1 == <<[type |-> "wifi", description |-> "Free Wi-Fi"]>>

NoAttributes == [class |-> "", view |-> ""]

\* StaysRoom records fed to mapRoom
RoomInputs ==
    { [name |-> "Standard Room", max_occupancy |-> None, beds |-> <<>>, photos |-> <<>>,
       amenities |-> <<>>, attributes |-> NoAttributes, rates |-> <<>>],
      [name |-> "Standard Room", max_occupancy |-> Some(4), beds |-> <<>>, photos |-> Photo1,
       amenities |-> <<>>, attributes |-> NoAttributes, rates |-> <<>>],
      [name |-> "Standard Room", max_occupancy |-> Some(3), beds |-> <<>>, photos |-> <<>>,
       amenities |-> Amenity1, attributes |-> [class |-> "Suite", view |-> "Ocean"],
       rates |-> <<>>],
      [name |-> "Standard Room", max_occupancy |-> Some(0), beds |-> <<>>, photos |-> <<>>,
       amenities |-> <<>>, attributes |-> NoAttributes, rates |-> <<>>] }

\* Feeds of two providers over two hotels, two rooms each: provider_a has
\* mapped h_src_1 only, provider_b both hotels
FeedSources == {"provider_a", "provider_b"}

FeedHotelSourceIds == {"h_src_1", "h_src_2"}

FeedRoomSourceIds == {"r_src_1", "r_src_2"}

\* StaysRoom records of a feed: two room names, nothing but the name
FeedRoomInputs ==
    { [name |-> "Standard Room", max_occupancy |-> None, beds |-> <<>>, photos |-> <<>>,
       amenities |-> <<>>, attributes |-> NoAttributes, rates |-> <<>>],
      [name |-> "Deluxe Room", max_occupancy |-> None, beds |-> <<>>, photos |-> <<>>,
       amenities |-> <<>>, attributes |-> NoAttributes, rates |-> <<>>] }

\* options = {} of a feed ingestion
DefaultOptions == [confidence |-> None, mappingType |-> None, isPrimary |-> None]

\* RoomMappingOptions passed to mapRoom; None is an omitted key
OptionInputs ==
    { [confidence |-> None, mappingType |-> None, isPrimary |-> None],
      [confidence |-> Some(10), mappingType |-> Some("verified"), isPrimary |-> Some(TRUE)] }

\* sourceToApply: omitted, the synthetic internal source, or a provider
SourceToApplyInputs == {None, Some("internal"), Some("provider_a"), Some("provider_b")}

\* (resolutionStrategy, sourceToApply) pairs passed to resolveConflict;
\* sourceToApply is read under apply_source only
ResolveInputs ==
    {<<"keep_internal", None>>} \cup {<<"apply_source", s>> : s \in SourceToApplyInputs}

OriginalPhotos == <<[url |-> "http://original.com/1.jpg"]>>

ApprovedPhotos == <<[url |-> "http://approved.com/best.jpg"]>>

PendingPhotos == <<[url |-> "http://pending.com/2.jpg"]>>

\* Room tables a reader may find: empty, a Room as mapRoom creates it (no
\* photos), and a catalogue Room that carries photos of its own
CatalogRoomTables ==
    { <<>>,
      <<[id |-> 1, hotelId |-> "h_1", name |-> "Standard Room", description |-> None,
         maxOccupancy |-> DefaultMaxOccupancy]>>,
      <<[id |-> 1, hotelId |-> "h_1", name |-> "Standard Room", description |-> None,
         maxOccupancy |-> DefaultMaxOccupancy, photos |-> OriginalPhotos]>> }

\* items of enrichRoomContent as a review tool sends them: images of two
\* providers, promoted or not, and promoted amenities
ReviewItemInputs ==
    { [fieldName |-> "images", content |-> ApprovedPhotos, source |-> "provider_a",
       quality |-> Some("approved")],
      [fieldName |-> "images", content |-> ApprovedPhotos, source |-> "provider_a",
       quality |-> None],
      [fieldName |-> "images", content |-> PendingPhotos, source |-> "provider_b",
       quality |-> Some("approved")],
      [fieldName |-> "images", content |-> PendingPhotos, source |-> "provider_b",
       quality |-> None],
      [fieldName |-> "amenities", content |-> Amenity1, source |-> "provider_a",
       quality |-> Some("approved")] }

\* items of enrichRoomContent
EnrichItemInputs ==
    { [fieldName |-> "images", content |-> Photo1, source |-> "provider_a",
       quality |-> Some("approved")],
      [fieldName |-> "images", content |-> Photo1, source |-> "provider_a",
       quality |-> None] }

\* ------------------------------------------------------------ pure helpers

\* Variant of calculateQualityScore: photos weigh as much as the name
calculateQualityScore_PhotosTen(room) ==
    LET score ==
            (IF TruthyStr(room.name) THEN 10 ELSE 0)
          + (IF TruthyNum(room.max_occupancy) THEN 10 ELSE 0)
          + (IF Len(room.beds) > 0 THEN 20 ELSE 0)
          + (IF Len(room.photos) > 0 THEN 10 ELSE 0)
          + (IF Len(room.amenities) > 0 THEN 20 ELSE 0)
          + (IF TruthyStr(room.attributes.class) \/ TruthyStr(room.attributes.view)
             THEN 10 ELSE 0)
          + (IF Len(room.rates) > 0 THEN 10 ELSE 0)
    IN IF score < 100 THEN score ELSE 100

calculateQualityScore(room) ==
    LET score ==
            (IF TruthyStr(room.name) THEN 10 ELSE 0)
          + (IF TruthyNum(room.max_occupancy) THEN 10 ELSE 0)
          + (IF Len(room.beds) > 0 THEN 20 ELSE 0)
          + (IF Len(room.photos) > 0 THEN 20 ELSE 0)
          + (IF Len(room.amenities) > 0 THEN 20 ELSE 0)
          + (IF TruthyStr(room.attributes.class) \/ TruthyStr(room.attributes.view)
             THEN 10 ELSE 0)
          + (IF Len(room.rates) > 0 THEN 10 ELSE 0)
    IN IF score < 100 THEN score ELSE 100

\* Variant of FindHotelMapping: the where clause lacks the source
FindHotelMapping_AnySource(source, hotelSourceId) ==
    IF \E h \in HotelMappings : h.sourceId = hotelSourceId
    THEN Some(CHOOSE h \in HotelMappings : h.sourceId = hotelSourceId)
    ELSE None

\* tx.hotelMapping.findFirst({where: {source, sourceId}}): None when absent
FindHotelMapping(source, hotelSourceId) ==
    IF \E h \in HotelMappings : h.source = source /\ h.sourceId = hotelSourceId
    THEN Some(CHOOSE h \in HotelMappings : h.source = source /\ h.sourceId = hotelSourceId)
    ELSE None

\* Variant of FindRoomMapping: sourceId is compared with the hotel mapping's id
FindRoomMapping_WrongKey(ms, source, roomSourceId, hotelMappingId) ==
    FindIndex([i \in 1..Len(ms) |-> ms[i].source = source /\ ms[i].sourceId = hotelMappingId
                                    /\ ms[i].hotelMappingId = hotelMappingId])

\* tx.roomMapping.findFirst({where: {source, sourceId, hotelMappingId}}): index or 0
FindRoomMapping(ms, source, roomSourceId, hotelMappingId) ==
    FindIndex([i \in 1..Len(ms) |-> ms[i].source = source /\ ms[i].sourceId = roomSourceId
                                    /\ ms[i].hotelMappingId = hotelMappingId])

\* Variant of FindRoomByName: the name is compared with the description
FindRoomByName_ByDescription(rs, hotelId, name) ==
    FindIndex([i \in 1..Len(rs) |-> rs[i].hotelId = hotelId /\ rs[i].description = Some(name)])

\* tx.room.findFirst({where: {hotelId, name}}): index or 0
FindRoomByName(rs, hotelId, name) ==
    FindIndex([i \in 1..Len(rs) |-> rs[i].hotelId = hotelId /\ rs[i].name = name])

\* --------------------------------------------------------- ConflictTracker

\* Variant of FindOpenConflict: the where clause lacks status: 'open'
FindOpenConflict_AnyStatus(cs, entityType, entityId, fieldName) ==
    FindIndex([i \in 1..Len(cs) |-> cs[i].entityType = entityType /\ cs[i].entityId = entityId
                                    /\ cs[i].fieldName = fieldName])

\* tx.mappingConflict.findFirst({where: {entityType, entityId, fieldName,
\* status: 'open'}}): index or 0
FindOpenConflict(cs, entityType, entityId, fieldName) ==
    FindIndex([i \in 1..Len(cs) |-> cs[i].entityType = entityType /\ cs[i].entityId = entityId
                                    /\ cs[i].fieldName = fieldName /\ cs[i].status = "open"])

\* Variant of UpsertSourceEntry: a source's new entry replaces the first entry
UpsertSourceEntry_ReplaceFirst(sources, conflictEntry) ==
    LET sourceIndex == FindIndex([i \in 1..Len(sources) |->
                                     sources[i].source = conflictEntry.source])
    IN IF sourceIndex >= 1
       THEN [sources EXCEPT ![1] = conflictEntry]
       ELSE Append(sources, conflictEntry)

\* "Update or append the source entry" of upsertConflict
UpsertSourceEntry(sources, conflictEntry) ==
    LET sourceIndex == FindIndex([i \in 1..Len(sources) |->
                                     sources[i].source = conflictEntry.source])
    IN IF sourceIndex >= 1
       THEN [sources EXCEPT ![sourceIndex] = conflictEntry]
       ELSE Append(sources, conflictEntry)

\* "internal" entry and the incoming entry of a newly created conflict
NewConflictSources(conflictEntry, currentValue, now) ==
    << [source |-> "internal", value |-> currentValue, detectedAt |-> now],
       conflictEntry >>

\* Variant of upsertConflict: no lookup of an open conflict, always creates
upsertConflict_AlwaysCreate(cs, entityType, entityId, fieldName, source, newValue, currentValue, now) ==
    Append(cs, [id |-> Len(cs) + 1,
                entityType |-> entityType,
                entityId |-> entityId,
                fieldName |-> fieldName,
                conflictingSources |->
                    NewConflictSources([source |-> source, value |-> newValue,
                                        detectedAt |-> now], currentValue, now),
                status |-> "open",
                resolution |-> None,
                resolvedAt |-> None])

upsertConflict(cs, entityType, entityId, fieldName, source, newValue, currentValue, now) ==
    LET existing == FindOpenConflict(cs, entityType, entityId, fieldName)
        conflictEntry == [source |-> source, value |-> newValue, detectedAt |-> now]
    IN IF existing >= 1
       THEN [cs EXCEPT ![existing].conflictingSources =
                           UpsertSourceEntry(cs[existing].conflictingSources, conflictEntry)]
       ELSE Append(cs, [id |-> Len(cs) + 1,
                        entityType |-> entityType,
                        entityId |-> entityId,
                        fieldName |-> fieldName,
                        conflictingSources |->
                            NewConflictSources(conflictEntry, currentValue, now),
                        status |-> "open",
                        resolution |-> None,
                        resolvedAt |-> None])

\* Variant of OccupancyMismatch: the two values are not compared
OccupancyMismatch_BothPresent(internalRoom, incomingData) ==
    /\ internalRoom.maxOccupancy # 0
    /\ TruthyNum(incomingData.max_occupancy)

\* The guard of detectAndRecordConflicts: both values truthy and different
OccupancyMismatch(internalRoom, incomingData) ==
    /\ internalRoom.maxOccupancy # 0
    /\ TruthyNum(incomingData.max_occupancy)
    /\ internalRoom.maxOccupancy # incomingData.max_occupancy[1]

detectAndRecordConflicts(cs, internalRoom, source, incomingData, now) ==
    IF OccupancyMismatch(internalRoom, incomingData)
    THEN upsertConflict(cs, "room", internalRoom.id, "maxOccupancy", source,
                        incomingData.max_occupancy[1], internalRoom.maxOccupancy, now)
    ELSE cs

\* ------------------------------------------------------ content enrichment

\* Variant of FindEnrichment: fieldName is compared with the source
FindEnrichment_WrongField(es, roomId, source, fieldName) ==
    FindIndex([i \in 1..Len(es) |-> es[i].roomId = roomId /\ es[i].source = source
                                    /\ es[i].fieldName = source])

\* tx.roomContentEnrichment.findFirst({where: {roomId, source, fieldName}})
FindEnrichment(es, roomId, source, fieldName) ==
    FindIndex([i \in 1..Len(es) |-> es[i].roomId = roomId /\ es[i].source = source
                                    /\ es[i].fieldName = fieldName])

\* quality is the parameter after its default 'pending' has been applied;
\* a created row takes the datastore's default enrichedAt, the current time
upsertRoomEnrichment(es, roomId, source, fieldName, content, quality, now) ==
    LET existing == FindEnrichment(es, roomId, source, fieldName)
    IN IF existing >= 1
       THEN [es EXCEPT ![existing].content = content,
                       ![existing].enrichedAt = now,
                       ![existing].quality = quality]
       ELSE Append(es, [roomId |-> roomId, source |-> source, fieldName |-> fieldName,
                        content |-> content, quality |-> quality, enrichedAt |-> now])

\* ------------------------------------------------------------------ mapRoom

OptConfidence(options) ==
    IF options.confidence = None THEN DefaultConfidence ELSE options.confidence[1]

OptMappingType(options) ==
    IF options.mappingType = None THEN "automatic" ELSE options.mappingType[1]

OptIsPrimary(options) ==
    IF options.isPrimary = None THEN FALSE ELSE options.isPrimary[1]

\* Variant of UpdatedMapping: confidence and mappingType always overwritten
UpdatedMapping_Overwrite(existingMapping, roomData, qualityScore, confidence, mappingType, now) ==
    [existingMapping EXCEPT !.sourceData = Some(roomData),
                            !.lastSyncedAt = now,
                            !.qualityScore = qualityScore,
                            !.confidence = confidence,
                            !.mappingType = mappingType]

\* data of tx.roomMapping.update for an existing mapping
UpdatedMapping(existingMapping, roomData, qualityScore, confidence, mappingType, now) ==
    LET refreshed == [existingMapping EXCEPT !.sourceData = Some(roomData),
                                             !.lastSyncedAt = now,
                                             !.qualityScore = qualityScore]
    IN IF existingMapping.mappingType # "verified"
       THEN [refreshed EXCEPT !.confidence = confidence, !.mappingType = mappingType]
       ELSE refreshed

\* description of a created Room: class and view joined, null when empty
RoomDescription(roomData) ==
    LET joined == JoinComma(FilterTruthy(<<roomData.attributes.class,
                                          roomData.attributes.view>>))
    IN IF TruthyStr(joined) THEN Some(joined) ELSE None

\* data of tx.room.create
NewRoom(rs, hotelId, roomData) ==
    [id |-> Len(rs) + 1,
     hotelId |-> hotelId,
     name |-> roomData.name,
     description |-> RoomDescription(roomData),
     maxOccupancy |-> IF TruthyNum(roomData.max_occupancy)
                      THEN roomData.max_occupancy[1]
                      ELSE DefaultMaxOccupancy]

\* Variant of NewMapping: the row is created without the score of the record
NewMapping_NoScore(roomId, hotelMappingId, source, roomSourceId, roomData, options, now) ==
    [roomId |-> roomId,
     hotelMappingId |-> hotelMappingId,
     source |-> source,
     sourceId |-> roomSourceId,
     sourceData |-> Some(roomData),
     confidence |-> OptConfidence(options),
     mappingType |-> OptMappingType(options),
     isPrimary |-> OptIsPrimary(options),
     lastSyncedAt |-> now,
     qualityScore |-> 0]

\* data of tx.roomMapping.create
NewMapping(roomId, hotelMappingId, source, roomSourceId, roomData, options, now) ==
    [roomId |-> roomId,
     hotelMappingId |-> hotelMappingId,
     source |-> source,
     sourceId |-> roomSourceId,
     sourceData |-> Some(roomData),
     confidence |-> OptConfidence(options),
     mappingType |-> OptMappingType(options),
     isPrimary |-> OptIsPrimary(options),
     lastSyncedAt |-> now,
     qualityScore |-> calculateQualityScore(roomData)]

\* step 4 of mapRoom: enrichment rows for photos and amenities
MapRoomEnrichments(es, roomId, source, roomData, now) ==
    LET es1 == IF Len(roomData.photos) > 0
               THEN upsertRoomEnrichment(es, roomId, source, "images",
                                         roomData.photos, "pending", now)
               ELSE es
    IN IF Len(roomData.amenities) > 0
       THEN upsertRoomEnrichment(es1, roomId, source, "amenities",
                                 roomData.amenities, "pending", now)
       ELSE es1

\* Variant of MapRoomTx: a room found by its name takes the incoming occupancy
MapRoomTx_RefreshesRoom(hotelMapping, roomSourceId, source, roomData, options, now) ==
    LET existing == FindRoomMapping(roomMappings, source, roomSourceId, hotelMapping.id)
        existingRoom == FindRoomByName(rooms, hotelMapping.hotelId, roomData.name)
        rooms1 == IF existing = 0 /\ existingRoom = 0
                  THEN Append(rooms, NewRoom(rooms, hotelMapping.hotelId, roomData))
                  ELSE IF existingRoom >= 1 /\ TruthyNum(roomData.max_occupancy)
                  THEN [rooms EXCEPT ![existingRoom].maxOccupancy =
                           roomData.max_occupancy[1]]
                  ELSE rooms
        roomId == IF existing >= 1 THEN roomMappings[existing].roomId
                  ELSE IF existingRoom >= 1 THEN existingRoom
                  ELSE Len(rooms1)
        mappings1 ==
            IF existing >= 1
            THEN [roomMappings EXCEPT ![existing] =
                     UpdatedMapping(roomMappings[existing], roomData,
                                    calculateQualityScore(roomData),
                                    OptConfidence(options), OptMappingType(options), now)]
            ELSE Append(roomMappings,
                        NewMapping(roomId, hotelMapping.id, source, roomSourceId,
                                   roomData, options, now))
    IN << rooms1,
          mappings1,
          detectAndRecordConflicts(conflicts, rooms1[roomId], source, roomData, now),
          MapRoomEnrichments(enrichments, roomId, source, roomData, now) >>

\* The transaction callback of mapRoom with the hotel mapping found: the
\* datastore after it, as <<rooms, roomMappings, conflicts, enrichments>>.
MapRoomTx(hotelMapping, roomSourceId, source, roomData, options, now) ==
    LET existing == FindRoomMapping(roomMappings, source, roomSourceId, hotelMapping.id)
        existingRoom == FindRoomByName(rooms, hotelMapping.hotelId, roomData.name)
        rooms1 == IF existing = 0 /\ existingRoom = 0
                  THEN Append(rooms, NewRoom(rooms, hotelMapping.hotelId, roomData))
                  ELSE rooms
        roomId == IF existing >= 1 THEN roomMappings[existing].roomId
                  ELSE IF existingRoom >= 1 THEN existingRoom
                  ELSE Len(rooms1)
        mappings1 ==
            IF existing >= 1
            THEN [roomMappings EXCEPT ![existing] =
                     UpdatedMapping(roomMappings[existing], roomData,
                                    calculateQualityScore(roomData),
                                    OptConfidence(options), OptMappingType(options), now)]
            ELSE Append(roomMappings,
                        NewMapping(roomId, hotelMapping.id, source, roomSourceId,
                                   roomData, options, now))
    IN << rooms1,
          mappings1,
          detectAndRecordConflicts(conflicts, rooms1[roomId], source, roomData, now),
          MapRoomEnrichments(enrichments, roomId, source, roomData, now) >>

\* Whether the call repeats the arguments of the call before it
SameMapRoomCall(op, hotelSourceId, roomSourceId, source, roomData) ==
    /\ op.op = "mapRoom"
    /\ op.hotelSourceId = hotelSourceId
    /\ op.roomSourceId = roomSourceId
    /\ op.source = source
    /\ op.roomData = roomData

MapRoom(hotelSourceId, roomSourceId, source, roomData, options) ==
    LET now == clock + 1
        hotelMapping == FindHotelMapping(source, hotelSourceId)
    IN /\ clock < MaxClock
       /\ clock' = now
       /\ LET after == IF hotelMapping = None
                       THEN store
                       ELSE MapRoomTx(hotelMapping[1], roomSourceId, source, roomData,
                                      options, now)
          IN /\ rooms' = after[1]
             /\ roomMappings' = after[2]
             /\ conflicts' = after[3]
             /\ enrichments' = after[4]
       /\ events' = events
       /\ UNCHANGED <<callVars, parserVars>>
       /\ lastOp' = [op |-> "mapRoom",
                     hotelSourceId |-> hotelSourceId,
                     roomSourceId |-> roomSourceId,
                     source |-> source,
                     roomData |-> roomData,
                     options |-> options,
                     result |-> "ok",
                     warned |-> (hotelMapping = None),
                     repeated |-> SameMapRoomCall(lastOp, hotelSourceId, roomSourceId,
                                                  source, roomData)]

\* ---------------------------------------------------------- resolveConflict

\* Variant of FindConflict: falls back to the first conflict
FindConflict_FirstRow(cs, conflictId) ==
    IF \E i \in 1..Len(cs) : cs[i].id = conflictId
    THEN CHOOSE i \in 1..Len(cs) : cs[i].id = conflictId
    ELSE IF Len(cs) > 0 THEN 1 ELSE 0

\* tx.mappingConflict.findUnique({where: {id}}): index or 0
FindConflict(cs, conflictId) ==
    FindIndex([i \in 1..Len(cs) |-> cs[i].id = conflictId])

\* Variant of FindSourceEntry: the predicate holds of every entry
FindSourceEntry_First(sources, sourceToApply) ==
    IF Len(sources) > 0 THEN 1 ELSE 0

\* conflictingSources.find(s => s.source === sourceToApply): index or 0
FindSourceEntry(sources, sourceToApply) ==
    FindIndex([i \in 1..Len(sources) |-> sources[i].source = sourceToApply])

\* The branch "resolutionStrategy === 'apply_source' && sourceToApply"
AppliesSource(resolutionStrategy, sourceToApply) ==
    resolutionStrategy = "apply_source" /\ sourceToApply # None

\* Variant of RoomFieldUpdate: entityType compared with a misspelt literal
RoomFieldUpdate_WrongType(rs, conflict, value) ==
    IF conflict.entityType = "Room"
    THEN [rs EXCEPT ![conflict.entityId].maxOccupancy = value]
    ELSE rs

\* tx.room.update({where: {id: entityId}, data: {[fieldName]: value}});
\* maxOccupancy is the one fieldName a conflict is ever recorded for
RoomFieldUpdate(rs, conflict, value) ==
    IF conflict.entityType = "room"
    THEN [rs EXCEPT ![conflict.entityId].maxOccupancy = value]
    ELSE rs

\* data of the tx.mappingConflict.update that closes the conflict
ResolvedConflict(conflict, resolutionStrategy, now) ==
    [conflict EXCEPT !.status = "resolved",
                     !.resolution = Some(resolutionStrategy),
                     !.resolvedAt = Some(now)]

\* What the transaction of resolveConflict throws: "" when it commits
ResolveError(conflictId, resolutionStrategy, sourceToApply) ==
    LET c == FindConflict(conflicts, conflictId)
    IN IF c = 0 THEN "Conflict not found"
       ELSE IF /\ AppliesSource(resolutionStrategy, sourceToApply)
               /\ FindSourceEntry(conflicts[c].conflictingSources, sourceToApply[1]) = 0
            THEN "Source not found in conflict"
            ELSE ""

\* Variant of Emit: the event is delivered twice
Emit_Twice(evs, resolvedConflict) ==
    Append(Append(evs, resolvedConflict), resolvedConflict)

\* this.emit('conflict:resolved', resolvedConflict): the event as the
\* subscribers receive it, in emission order
Emit(evs, resolvedConflict) ==
    Append(evs, resolvedConflict)

\* What the call rejects with: the transaction's error, else what a
\* conflict:resolved listener threw inside emit; "" when the call resolves
CallError(error, listenerThrows) ==
    IF error # "" THEN error
    ELSE IF listenerThrows THEN "listener error"
    ELSE ""

\* resolveConflict with the behaviour of the conflict:resolved listeners as
\* an input: listenerThrows says whether one of them throws when invoked
ResolveConflictWith(conflictId, resolutionStrategy, sourceToApply, listenerThrows) ==
    LET now == clock + 1
        error == ResolveError(conflictId, resolutionStrategy, sourceToApply)
        c == FindConflict(conflicts, conflictId)
        resolvedConflict == ResolvedConflict(conflicts[c], resolutionStrategy, now)
    IN /\ clock < MaxClock
       /\ clock' = now
       /\ IF error # ""
          THEN UNCHANGED <<rooms, conflicts, events>>
          ELSE /\ rooms' =
                    IF AppliesSource(resolutionStrategy, sourceToApply)
                    THEN LET e == FindSourceEntry(conflicts[c].conflictingSources,
                                                  sourceToApply[1])
                         IN RoomFieldUpdate(rooms, conflicts[c],
                                            conflicts[c].conflictingSources[e].value)
                    ELSE rooms
               /\ conflicts' = [conflicts EXCEPT ![c] = resolvedConflict]
               /\ events' = Emit(events, resolvedConflict)
       /\ UNCHANGED <<roomMappings, enrichments>>
       /\ UNCHANGED <<callVars, parserVars>>
       /\ lastOp' = [op |-> "resolveConflict",
                     conflictId |-> conflictId,
                     resolutionStrategy |-> resolutionStrategy,
                     sourceToApply |-> sourceToApply,
                     result |-> IF CallError(error, listenerThrows) = ""
                                THEN "ok" ELSE "error",
                     error |-> CallError(error, listenerThrows),
                     listenerThrew |-> (error = "" /\ listenerThrows)]

\* resolveConflict with listeners that return
ResolveConflict(conflictId, resolutionStrategy, sourceToApply) ==
    ResolveConflictWith(conflictId, resolutionStrategy, sourceToApply, FALSE)

\* -------------------------------------------------------- enrichRoomContent

RECURSIVE EnrichAll(_, _, _, _)
EnrichAll(es, roomId, items, now) ==
    IF Len(items) = 0 THEN es
    ELSE EnrichAll(upsertRoomEnrichment(es, roomId, items[1].source, items[1].fieldName,
                                        items[1].content,
                                        IF items[1].quality = None THEN "pending"
                                        ELSE items[1].quality[1],
                                        now),
                   roomId, Tail(items), now)

EnrichRoomContent(roomId, items) ==
    LET now == clock + 1
    IN /\ clock < MaxClock
       /\ clock' = now
       /\ enrichments' = EnrichAll(enrichments, roomId, items, now)
       /\ UNCHANGED <<rooms, roomMappings, conflicts, events>>
       /\ UNCHANGED <<callVars, parserVars>>
       /\ lastOp' = [op |-> "enrichRoomContent", roomId |-> roomId, items |-> items,
                     result |-> "ok"]

\* --------------------------------------------------------- getUnifiedRoomData

\* prisma.room.findUnique({where: {id}}): index or 0
FindRoomById(rs, roomId) ==
    FindIndex([i \in 1..Len(rs) |-> rs[i].id = roomId])

\* include: {mappings: true}
MappingsOfRoom(ms, roomId) ==
    SelectSeq(ms, LAMBDA m : m.roomId = roomId)

\* include: {contentEnrichment: true}
EnrichmentOfRoom(es, roomId) ==
    SelectSeq(es, LAMBDA e : e.roomId = roomId)

\* Variant of FindImageEnrichment: the quality of the row is not looked at
FindImageEnrichment_AnyQuality(contentEnrichment) ==
    FindIndex([i \in 1..Len(contentEnrichment) |-> contentEnrichment[i].fieldName = "images"])

\* contentEnrichment.find(e => e.fieldName === 'images' && e.quality ===
\* 'approved'): index or 0
FindImageEnrichment(contentEnrichment) ==
    FindIndex([i \in 1..Len(contentEnrichment) |->
                  /\ contentEnrichment[i].fieldName = "images"
                  /\ contentEnrichment[i].quality = "approved"])

\* A record with one property set, added when the record lacks it
WithProperty(rec, key, value) ==
    [k \in DOMAIN rec \cup {key} |-> IF k = key THEN value ELSE rec[k]]

\* The value getUnifiedRoomData returns for a room that exists
UnifiedRoom(room) ==
    LET contentEnrichment == EnrichmentOfRoom(enrichments, room.id)
        included == WithProperty(WithProperty(room, "mappings",
                                              MappingsOfRoom(roomMappings, room.id)),
                                 "contentEnrichment", contentEnrichment)
        imageEnrichment == FindImageEnrichment(contentEnrichment)
    IN IF imageEnrichment >= 1
       THEN WithProperty(included, "photos", contentEnrichment[imageEnrichment].content)
       ELSE included

GetUnifiedRoomData(roomId) ==
    LET room == FindRoomById(rooms, roomId)
    IN /\ clock < MaxClock
       /\ clock' = clock + 1
       /\ UNCHANGED <<rooms, roomMappings, conflicts, enrichments, events>>
       /\ UNCHANGED <<callVars, parserVars>>
       /\ lastOp' = [op |-> "getUnifiedRoomData",
                     roomId |-> roomId,
                     result |-> "ok",
                     returned |-> IF room = 0 THEN None ELSE Some(UnifiedRoom(rooms[room]))]

\* ------------------------------------------- bulkRecalculateQualityScores

\* Whether the loop body writes the row
\* Variant of NeedsRecalculation: every row with a snapshot is written
NeedsRecalculation_AnySnapshot(mapping) ==
    mapping.sourceData # None

NeedsRecalculation(mapping) ==
    /\ mapping.sourceData # None
    /\ calculateQualityScore(mapping.sourceData[1]) # mapping.qualityScore

Recalculated(mapping) ==
    IF NeedsRecalculation(mapping)
    THEN [mapping EXCEPT !.qualityScore = calculateQualityScore(mapping.sourceData[1])]
    ELSE mapping

\* Called with no other call in flight: the scan and its writes as one step
BulkRecalculateQualityScores ==
    /\ clock < MaxClock
    /\ clock' = clock + 1
    /\ roomMappings' = [i \in 1..Len(roomMappings) |-> Recalculated(roomMappings[i])]
    /\ UNCHANGED <<rooms, conflicts, enrichments, events>>
    /\ UNCHANGED <<callVars, parserVars>>
    /\ lastOp' = [op |-> "bulkRecalculateQualityScores",
                  result |-> "ok",
                  updatedCount |->
                      Cardinality({i \in 1..Len(roomMappings) :
                                      NeedsRecalculation(roomMappings[i])})]

\* -------------------------------------------------- HotelRoomFeedParser.parse

\* A tag is [name, attributes]; attributes is the set of the <<key, value>>
\* pairs the element carries.  tag.attributes[key]: undefined when absent
Attr(tag, key) ==
    IF \E p \in tag.attributes : p[1] = key
    THEN Some((CHOOSE p \in tag.attributes : p[1] = key)[2])
    ELSE None

\* JS truthiness of an optional string: undefined and '' are falsy
TruthyAttr(a) == a # None /\ a[1] # ""

\* a || b over optional strings
OrElse(a, b) == IF TruthyAttr(a) THEN a ELSE b

\* (a as string) || 'literal'
StrOr(a, literal) == IF TruthyAttr(a) THEN a[1] ELSE literal

\* parseInt(s, 10) over the numerals a feed of the model can carry
ParseInt(s) ==
    CASE s = "0" -> 0
      [] s = "1" -> 1
      [] s = "2" -> 2
      [] s = "3" -> 3
      [] s = "4" -> 4
      [] s = "-1" -> -1
      [] s = "2 adults" -> 2
      [] OTHER -> NaN

\* rawType.toLowerCase().includes(key) over the bed descriptions a feed of the
\* model can carry
LowerIncludes(rawType, key) ==
    <<rawType, key>> \in
        { <<"King", "king">>, <<"KING", "king">>, <<"Queen", "queen">>,
          <<"King or Queen", "king">>, <<"King or Queen", "queen">>,
          <<"Double", "double">>, <<"Twin", "twin">>, <<"Sofa Bed", "sofa">>,
          <<"Murphy", "murphy">>, <<"Bunk", "bunk">>, <<"Full", "full">>,
          <<"Breakfast Included", "breakfast">>, <<"All Inclusive", "all">>,
          <<"Small Breakfast", "breakfast">>, <<"Small Breakfast", "all">> }

normalizeBedType(rawType) ==
    IF LowerIncludes(rawType, "king") THEN "king"
    ELSE IF LowerIncludes(rawType, "queen") THEN "queen"
    ELSE IF LowerIncludes(rawType, "double") THEN "double"
    ELSE IF LowerIncludes(rawType, "twin") THEN "twin"
    ELSE IF LowerIncludes(rawType, "sofa") THEN "sofabed"
    ELSE IF LowerIncludes(rawType, "murphy") THEN "murphy"
    ELSE IF LowerIncludes(rawType, "bunk") THEN "bunk"
    ELSE IF LowerIncludes(rawType, "full") THEN "full"
    ELSE "single"

\* The keys of AMENITY_MAPPING in insertion order, each with its amenity type
AMENITY_MAPPING ==
    << <<"WIFI", "wifi">>, <<"INTERNET", "wifi">>, <<"POOL", "pool">>,
       <<"SWIMMING", "pool">>, <<"PARKING", "parking">>, <<"VALET", "parking">>,
       <<"GYM", "gym">>, <<"FITNESS", "gym">>, <<"WORKOUT", "gym">>,
       <<"SPA", "spa">>, <<"SAUNA", "spa">>, <<"RESTAURANT", "restaurant">>,
       <<"DINING", "restaurant">>, <<"ROOMSERVICE", "room_service">>,
       <<"LAUNDRY", "laundry">>, <<"DRYCLEANING", "laundry">>,
       <<"CONCIERGE", "concierge">>, <<"PETS", "pets_allowed">>,
       <<"DOG", "pets_allowed">>, <<"CAT", "pets_allowed">>,
       <<"BUSINESS", "business_centre">>, <<"LOUNGE", "lounge">>, <<"BAR", "lounge">>,
       <<"CHILDCARE", "childcare_service">>, <<"BABY", "childcare_service">>,
       <<"ATM", "cash_machine">>, <<"CASH", "cash_machine">>,
       <<"FRONTDESK", "24_hour_front_desk">>, <<"RECEPTION", "24_hour_front_desk">>,
       <<"ACCESSIB", "accessibility_mobility">>, <<"HANDICAP", "accessibility_mobility">>,
       <<"HEARING", "accessibility_hearing">>, <<"ADULT", "adult_only">> >>

\* rawCode.toUpperCase().replace(/[^A-Z0-9]/g, '').includes(key) over the
\* amenity codes a feed of the model can carry
NormalizedIncludes(rawCode, key) ==
    <<rawCode, key>> \in
        { <<"WIFI", "WIFI">>, <<"Free Wi-Fi", "WIFI">>, <<"POOL", "POOL">>,
          <<"Swimming Pool", "POOL">>, <<"Swimming Pool", "SWIMMING">>,
          <<"Spa Bar", "SPA">>, <<"Spa Bar", "BAR">>, <<"front-desk", "FRONTDESK">> }

mapAmenity(rawCode) ==
    LET hits == { i \in 1..Len(AMENITY_MAPPING) :
                    NormalizedIncludes(rawCode, AMENITY_MAPPING[i][1]) }
    IN IF hits = {} THEN "wifi"
       ELSE AMENITY_MAPPING[CHOOSE i \in hits : \A j \in hits : i <= j][2]

\* Text reaches the handlers in chunks; a chunk of the model is either white
\* space only or begins and ends with a visible character
IsWhitespace(chunk) == chunk \in {"", " ", "\n"}

RECURSIVE TrimStart(_)
TrimStart(chunks) ==
    IF Len(chunks) > 0 /\ IsWhitespace(chunks[1]) THEN TrimStart(Tail(chunks))
    ELSE chunks

RECURSIVE TrimEnd(_)
TrimEnd(chunks) ==
    IF Len(chunks) > 0 /\ IsWhitespace(chunks[Len(chunks)])
    THEN TrimEnd(SubSeq(chunks, 1, Len(chunks) - 1))
    ELSE chunks

RECURSIVE Concat(_)
Concat(chunks) == IF Len(chunks) = 0 THEN "" ELSE chunks[1] \o Concat(Tail(chunks))

\* String.prototype.trim of the chunks received
Trim(chunks) == Concat(TrimEnd(TrimStart(chunks)))

IsHotelTag(name) == name \in {"Hotel", "HotelDescriptiveContent", "Property"}

IsRoomTag(name) == name \in {"Room", "GuestRoom"}

IsRateTag(name) == name \in {"Rate", "RatePlan"}

\* opentag, step 0: the id of a hotel wrapper, by attribute priority
HotelIdOf(tag) ==
    OrElse(Attr(tag, "HotelCode"),
           OrElse(Attr(tag, "HotelID"), OrElse(Attr(tag, "id"), Attr(tag, "Code"))))

\* opentag, step 1: the source id a room tag carries
RoomSourceIdOf(tag) ==
    OrElse(Attr(tag, "id"),
           OrElse(Attr(tag, "code"), OrElse(Attr(tag, "RoomTypeCode"), Attr(tag, "RoomID"))))

\* opentag, step 1: the name a room tag carries
RoomNameOf(tag) == StrOr(OrElse(Attr(tag, "roomTypeName"), Attr(tag, "name")), "")

\* opentag, step 1: the room a room tag starts
StartedRoom(tag) ==
    LET maxOcc == OrElse(Attr(tag, "maxOccupancy"), Attr(tag, "MaxOccupancy"))
    IN [name |-> RoomNameOf(tag),
        rates |-> <<>>, beds |-> <<>>, photos |-> <<>>, amenities |-> <<>>,
        attributes |-> NoAttributes,
        max_occupancy |-> IF TruthyAttr(maxOcc) THEN Some(ParseInt(maxOcc[1])) ELSE None]

\* opentag, step 2: what a nested tag adds to the room in progress
RoomAfterOpen(room, tag) ==
    CASE tag.name = "Bed" ->
           [room EXCEPT !.beds =
               Append(@, [type |-> normalizeBedType(StrOr(Attr(tag, "type"), "")),
                          count |-> ParseInt(StrOr(Attr(tag, "count"), "1"))])]
      [] tag.name = "TypeRoom" ->
           IF TruthyAttr(Attr(tag, "name")) /\ ~TruthyStr(room.name)
           THEN [room EXCEPT !.name = Attr(tag, "name")[1]]
           ELSE room
      [] tag.name \in {"Photo", "Image"} ->
           LET url == OrElse(Attr(tag, "url"), Attr(tag, "src"))
           IN IF TruthyAttr(url) THEN [room EXCEPT !.photos = Append(@, [url |-> url[1]])]
              ELSE room
      [] tag.name = "Amenity" ->
           [room EXCEPT !.amenities =
               Append(@, [type |-> mapAmenity(StrOr(Attr(tag, "code"), "")),
                          description |-> ""])]
      [] OTHER -> room

\* opentag, step 2: the source id after a TypeRoom tag
SourceIdAfterOpen(sourceId, tag) ==
    LET typeCode == OrElse(Attr(tag, "RoomTypeCode"), Attr(tag, "code"))
    IN IF tag.name = "TypeRoom" /\ TruthyAttr(typeCode) /\ ~TruthyAttr(sourceId)
       THEN typeCode
       ELSE sourceId

\* opentag, step 3: the rate a Rate / RatePlan tag starts; generated stands
\* for the Math.random() suffix of an id made up for a tag without one
StartedRate(tag, generated) ==
    [id |-> StrOr(Attr(tag, "id"), "rate_" \o ToString(generated)),
     code |-> IF TruthyAttr(Attr(tag, "code")) THEN Attr(tag, "code") ELSE None,
     total_amount |-> "0.00", total_currency |-> "USD",
     base_amount |-> None, base_currency |-> "USD",
     tax_amount |-> None, tax_currency |-> "USD",
     fee_amount |-> None, fee_currency |-> "USD",
     due_at_accommodation_amount |-> None, due_at_accommodation_currency |-> "USD",
     payment_type |-> "pay_now", board_type |-> "room_only",
     available_payment_methods |-> <<"card">>,
     conditions |-> <<>>, cancellation_timeline |-> <<>>,
     loyalty_programme_required |-> FALSE, supported_loyalty_programme |-> None,
     source |-> "duffel_hotel_group", expires_at |-> "now + 86400000",
     description |-> None, quantity_available |-> None]

\* Variant of RateAfterClose: an Amount / Total tag sets the currency of the
\* total only
RateAfterClose_TotalCurrencyOnly(rate, tag, content) ==
    IF tag.name \in {"Amount", "Total"}
    THEN LET currency == Attr(tag, "currency")
         IN IF TruthyAttr(currency)
            THEN [rate EXCEPT !.total_amount = content,
                              !.total_currency = currency[1]]
            ELSE [rate EXCEPT !.total_amount = content]
    ELSE IF tag.name \in {"Meals", "Board"}
    THEN IF LowerIncludes(content, "breakfast") THEN [rate EXCEPT !.board_type = "breakfast"]
         ELSE IF LowerIncludes(content, "all") THEN [rate EXCEPT !.board_type = "all_inclusive"]
         ELSE rate
    ELSE rate

\* closetag: what an Amount / Total or Meals / Board tag gives the rate in
\* progress
RateAfterClose(rate, tag, content) ==
    IF tag.name \in {"Amount", "Total"}
    THEN LET currency == Attr(tag, "currency")
         IN IF TruthyAttr(currency)
            THEN [rate EXCEPT !.total_amount = content,
                              !.total_currency = currency[1],
                              !.base_currency = currency[1],
                              !.tax_currency = currency[1],
                              !.fee_currency = currency[1],
                              !.due_at_accommodation_currency = currency[1]]
            ELSE [rate EXCEPT !.total_amount = content]
    ELSE IF tag.name \in {"Meals", "Board"}
    THEN IF LowerIncludes(content, "breakfast") THEN [rate EXCEPT !.board_type = "breakfast"]
         ELSE IF LowerIncludes(content, "all") THEN [rate EXCEPT !.board_type = "all_inclusive"]
         ELSE rate
    ELSE rate

\* existingBed.count++
Incremented(count) == IF count = NaN THEN NaN ELSE count + 1

\* Variant of BedsAfterBedType: every BedType element adds an entry
BedsAfterBedType_AlwaysAppend(beds, type) == Append(beds, [type |-> type, count |-> 1])

\* closetag, BedType: one more bed of the type, aggregated with the first bed
\* of that type
BedsAfterBedType(beds, type) ==
    LET existingBed == FindIndex([i \in 1..Len(beds) |-> beds[i].type = type])
    IN IF existingBed > 0
       THEN [beds EXCEPT ![existingBed].count = Incremented(@)]
       ELSE Append(beds, [type |-> type, count |-> 1])

\* closetag, step 3: the text content of a closing tag mapped to the room
RoomAfterClose(room, tag, content) ==
    CASE tag.name \in {"Name", "RoomName"} -> [room EXCEPT !.name = content]
      [] tag.name = "MaxOccupancy" -> [room EXCEPT !.max_occupancy = Some(ParseInt(content))]
      [] tag.name = "BedType" ->
           [room EXCEPT !.beds = BedsAfterBedType(@, normalizeBedType(content))]
      [] tag.name = "RoomCategory" -> [room EXCEPT !.attributes.class = content]
      [] tag.name = "RoomView" -> [room EXCEPT !.attributes.view = content]
      [] tag.name = "RoomAmenity" ->
           IF TruthyStr(content)
           THEN [room EXCEPT !.amenities =
                    Append(@, [type |-> mapAmenity(content), description |-> content])]
           ELSE room
      [] tag.name = "Amenity" ->
           IF Len(room.amenities) > 0
           THEN [room EXCEPT !.amenities[Len(room.amenities)].description = content]
           ELSE room
      [] OTHER -> room

\* The locals of parse as declared, nothing read from the stream yet
ParserInit ==
    /\ currentHotelId = None
    /\ currentRoom = None
    /\ currentRate = None
    /\ currentSourceId = None
    /\ currentTag = None
    /\ textBuffer = <<>>
    /\ openElements = <<>>
    /\ sinceOpenTag = <<>>
    /\ eventCount = 0
    /\ delivered = <<>>
    /\ settled = "pending"
    /\ stream = "flowing"

\* The innermost room element among the open elements; 0 when there is none
NearestRoom(elements) ==
    IF \E i \in 1..Len(elements) : IsRoomTag(elements[i].tag.name)
    THEN CHOOSE i \in 1..Len(elements) :
            /\ IsRoomTag(elements[i].tag.name)
            /\ \A j \in (i + 1)..Len(elements) : ~IsRoomTag(elements[j].tag.name)
    ELSE 0

\* The open elements after the document names the innermost room element
Named(elements, name) ==
    IF NearestRoom(elements) = 0 THEN elements
    ELSE [elements EXCEPT ![NearestRoom(elements)].name = name]

\* The open elements after a tag opens: a room element starts with the name
\* on its tag, a TypeRoom tag names a room element that has no name yet
Opened(elements, tag, position) ==
    LET typeName == Attr(tag, "name")
        named == IF /\ tag.name = "TypeRoom"
                    /\ TruthyAttr(typeName)
                    /\ NearestRoom(elements) # 0
                    /\ ~TruthyStr(elements[NearestRoom(elements)].name)
                 THEN Named(elements, typeName[1])
                 ELSE elements
    IN Append(named, [tag |-> tag, position |-> position,
                      name |-> IF IsRoomTag(tag.name) THEN RoomNameOf(tag) ELSE "",
                      contents |-> <<>>])

\* The open elements after the innermost closes: the closed element, with its
\* tag, its text and the element it is a child of, joins the contents of the
\* room element it is in, and the text of a Name or RoomName element names
\* that room element
Closed(elements, text) ==
    LET top == elements[Len(elements)]
        rest == SubSeq(elements, 1, Len(elements) - 1)
        child == [tag |-> top.tag, text |-> Trim(text), position |-> top.position,
                  parent |-> IF Len(rest) = 0 THEN 0 ELSE rest[Len(rest)].position]
        recorded == IF NearestRoom(rest) = 0 THEN rest
                    ELSE [rest EXCEPT ![NearestRoom(rest)].contents = Append(@, child)]
    IN IF top.tag.name \in {"Name", "RoomName"} THEN Named(recorded, Trim(text))
       ELSE recorded

\* What the parser's actions leave alone
ParserFrame == UNCHANGED <<store, events, clock, lastOp, callVars>>

\* parser.on('opentag'): the tokenizer reports the open tag of an element of
\* a well-formed document
OpenTag(tag) ==
    /\ stream = "flowing"
    /\ eventCount < MaxEvents
    /\ Len(openElements) < MaxDepth
    /\ openElements = <<>> => eventCount = 0
    /\ LET hotelId == IF IsHotelTag(tag.name) THEN HotelIdOf(tag) ELSE currentHotelId
           sourceId == IF IsRoomTag(tag.name) THEN RoomSourceIdOf(tag) ELSE currentSourceId
           room == IF IsRoomTag(tag.name) THEN Some(StartedRoom(tag)) ELSE currentRoom
       IN /\ currentTag' = Some(tag.name)
          /\ textBuffer' = <<>>
          /\ currentHotelId' = hotelId
          /\ currentRoom' = IF room = None THEN None ELSE Some(RoomAfterOpen(room[1], tag))
          /\ currentSourceId' =
                IF room = None THEN sourceId ELSE SourceIdAfterOpen(sourceId, tag)
          /\ currentRate' =
                IF room # None /\ IsRateTag(tag.name)
                THEN Some(StartedRate(tag, eventCount + 1))
                ELSE currentRate
    /\ openElements' = Opened(openElements, tag, eventCount + 1)
    /\ sinceOpenTag' = <<>>
    /\ eventCount' = eventCount + 1
    /\ UNCHANGED <<delivered, settled, stream>>
    /\ ParserFrame

\* Variant of Text: the chunk is added whether or not a room is in progress
Text_Ungated(chunk) ==
    /\ stream = "flowing"
    /\ eventCount < MaxEvents
    /\ openElements # <<>>
    /\ textBuffer' = Append(textBuffer, chunk)
    /\ sinceOpenTag' = Append(sinceOpenTag, chunk)
    /\ eventCount' = eventCount + 1
    /\ UNCHANGED <<currentHotelId, currentRoom, currentRate, currentSourceId, currentTag,
                   openElements, delivered, settled, stream>>
    /\ ParserFrame

\* parser.on('text'): the tokenizer reports a chunk of character data
Text(chunk) ==
    /\ stream = "flowing"
    /\ eventCount < MaxEvents
    /\ openElements # <<>>
    /\ textBuffer' = IF currentRoom = None THEN textBuffer ELSE Append(textBuffer, chunk)
    /\ sinceOpenTag' = Append(sinceOpenTag, chunk)
    /\ eventCount' = eventCount + 1
    /\ UNCHANGED <<currentHotelId, currentRoom, currentRate, currentSourceId, currentTag,
                   openElements, delivered, settled, stream>>
    /\ ParserFrame

\* onRoomFound(currentRoom, currentSourceId, currentHotelId), made when the
\* element opened by event number element closes
RoomFound(room, sourceId, hotelId, element) ==
    [room |-> room, sourceId |-> sourceId, hotelId |-> hotelId, element |-> element]

\* parser.on('closetag'): the tokenizer reports the close of the innermost
\* open element, with the tag that opened it
CloseTag ==
    /\ stream = "flowing"
    /\ eventCount < MaxEvents
    /\ openElements # <<>>
    /\ LET top == openElements[Len(openElements)]
           tag == top.tag
           content == Trim(textBuffer)
       IN IF currentRoom = None
          THEN UNCHANGED <<currentHotelId, currentRoom, currentRate, currentSourceId,
                           currentTag, delivered>>
          ELSE LET hotelId == IF IsHotelTag(tag.name) THEN None ELSE currentHotelId
               IN /\ currentHotelId' = hotelId
                  /\ IF currentRate # None /\ IsRateTag(tag.name)
                     THEN /\ currentRoom' =
                               Some([currentRoom[1] EXCEPT !.rates = Append(@, currentRate[1])])
                          /\ currentRate' = None
                          /\ currentTag' = None
                          /\ UNCHANGED <<currentSourceId, delivered>>
                     ELSE LET rate == IF currentRate = None THEN None
                                      ELSE Some(RateAfterClose(currentRate[1], tag, content))
                              room == RoomAfterClose(currentRoom[1], tag, content)
                          IN /\ currentRate' = rate
                             /\ IF IsRoomTag(tag.name)
                                THEN /\ delivered' =
                                          IF TruthyStr(room.name)
                                          THEN Append(delivered,
                                                      RoomFound(room, currentSourceId, hotelId,
                                                                top.position))
                                          ELSE delivered
                                     /\ currentRoom' = None
                                     /\ currentSourceId' = None
                                ELSE /\ currentRoom' = Some(room)
                                     /\ UNCHANGED <<currentSourceId, delivered>>
                             /\ currentTag' = None
    /\ openElements' = Closed(openElements, sinceOpenTag)
    /\ eventCount' = eventCount + 1
    /\ UNCHANGED <<textBuffer, sinceOpenTag, settled, stream>>
    /\ ParserFrame

\* parser.on('error'): the tokenizer reports malformed markup inside the root
\* element and goes on; reject settles a pending promise only
ParserError ==
    /\ stream = "flowing"
    /\ eventCount < MaxEvents
    /\ openElements # <<>>
    /\ settled' = IF settled = "pending" THEN "rejected" ELSE settled
    /\ eventCount' = eventCount + 1
    /\ UNCHANGED <<currentHotelId, currentRoom, currentRate, currentSourceId, currentTag,
                   textBuffer, openElements, sinceOpenTag, delivered, stream>>
    /\ ParserFrame

\* parser.close() finds the document incomplete: no root element, or elements
\* still open; the tokenizer reports that to the error handler before 'end'
Truncated == eventCount = 0 \/ openElements # <<>>

\* Variant of End: resolve settles the promise whatever its state
End_AlwaysResolves ==
    /\ stream = "flowing"
    /\ stream' = "ended"
    /\ settled' = "resolved"
    /\ UNCHANGED <<currentHotelId, currentRoom, currentRate, currentSourceId, currentTag,
                   textBuffer, openElements, sinceOpenTag, eventCount, delivered>>
    /\ ParserFrame

\* stream.on('end'): parser.close(), which reports an incomplete document to
\* the error handler and then emits 'end', whose handler calls resolve;
\* reject and resolve settle a pending promise only
End ==
    /\ stream = "flowing"
    /\ stream' = "ended"
    /\ settled' = IF settled # "pending" THEN settled
                  ELSE IF Truncated THEN "rejected"
                  ELSE "resolved"
    /\ UNCHANGED <<currentHotelId, currentRoom, currentRate, currentSourceId, currentTag,
                   textBuffer, openElements, sinceOpenTag, eventCount, delivered>>
    /\ ParserFrame

\* stream.on('error'): the Readable fails and emits nothing more; reject
\* settles a pending promise only
StreamError ==
    /\ stream = "flowing"
    /\ stream' = "errored"
    /\ settled' = IF settled = "pending" THEN "rejected" ELSE settled
    /\ UNCHANGED <<currentHotelId, currentRoom, currentRate, currentSourceId, currentTag,
                   textBuffer, openElements, sinceOpenTag, eventCount, delivered>>
    /\ ParserFrame

\* ------------------------------------------- mapRoom calls in flight at once

\* Two mapRoom calls in flight, one per provider, for the same hotel and
\* source room id
Calls == {"call_a", "call_b"}

CallSource(c) == IF c = "call_a" THEN "provider_a" ELSE "provider_b"

\* The records of the two calls: a max_occupancy of 3, or of 4 with a photo
ConcurrentRoomInputs ==
    { [name |-> "Standard Room", max_occupancy |-> Some(3), beds |-> <<>>, photos |-> <<>>,
       amenities |-> <<>>, attributes |-> NoAttributes, rates |-> <<>>],
      [name |-> "Standard Room", max_occupancy |-> Some(4), beds |-> <<>>, photos |-> Photo1,
       amenities |-> <<>>, attributes |-> NoAttributes, rates |-> <<>>] }

\* The records of the calls that completed earlier: no max_occupancy (the
\* Room is created with the default), or 4 with a photo
EarlierRoomInputs ==
    { [name |-> "Standard Room", max_occupancy |-> None, beds |-> <<>>, photos |-> <<>>,
       amenities |-> <<>>, attributes |-> NoAttributes, rates |-> <<>>],
      [name |-> "Standard Room", max_occupancy |-> Some(4), beds |-> <<>>, photos |-> Photo1,
       amenities |-> <<>>, attributes |-> NoAttributes, rates |-> <<>>] }

\* The locals of a call that has not entered its transaction callback
TxIdle ==
    [pc |-> "idle", roomData |-> None, hotelMapping |-> None, existingMapping |-> 0,
     roomId |-> 0, currentRoom |-> None, conflictEntry |-> None, existing |-> None,
     existingEnrichment |-> 0]

\* bulkRecalculateQualityScores not called: no rows read, nothing counted
RecalcIdle == [pc |-> "idle", mappings |-> <<>>, next |-> 1, updatedCount |-> 0]

NoCalls ==
    /\ txs = [c \in Calls |-> TxIdle]
    /\ isolation = "serializable"
    /\ recalc = RecalcIdle
    /\ finished = {}

\* Variant of MayStep: the datastore lets the callbacks interleave
MayStep_Interleaved(c) ==
    TRUE

\* prisma.$transaction: whether the datastore lets the callback of call c
\* take its next step. Serializable: callbacks run one after another, a
\* callback starts when no other is between its first operation and its
\* commit. "none": $transaction only invokes the callback (the
\* mockPrisma of the scripts), so the operations of two callbacks interleave
\* at their awaits and every write is seen at once.
MayStep(c) ==
    \/ isolation = "none"
    \/ \A d \in Calls \ {c} : txs[d].pc \in {"idle", "done"}

\* A step of a callback: time passes, nothing outside the datastore changes
TxFrame ==
    /\ clock' = clock + 1
    /\ UNCHANGED <<events, lastOp, isolation, recalc, finished, parserVars>>

\* Where the callback goes once the RoomMapping is written: step 3.5, else
\* step 4, else the end of the callback
AfterEnrichment(roomData, fieldName) ==
    IF fieldName = "none" /\ Len(roomData.photos) > 0 THEN "findImages"
    ELSE IF fieldName # "amenities" /\ Len(roomData.amenities) > 0 THEN "findAmenities"
    ELSE "commit"

AfterMapping(room, roomData) ==
    IF OccupancyMismatch(room, roomData) THEN "findConflict"
    ELSE AfterEnrichment(roomData, "none")

\* tx.hotelMapping.findFirst, with the arguments of the call
TxFindHotelMapping(c, roomData) ==
    LET hotelMapping == FindHotelMapping(CallSource(c), "h_src_1")
    IN /\ txs[c].pc = "idle"
       /\ MayStep(c)
       /\ txs' = [txs EXCEPT ![c].roomData = Some(roomData),
                             ![c].hotelMapping = hotelMapping,
                             ![c].pc = IF hotelMapping = None THEN "commit"
                                       ELSE "findRoomMapping"]
       /\ UNCHANGED store
       /\ TxFrame

\* tx.roomMapping.findFirst({..., include: {room: true}})
TxFindRoomMapping(c) ==
    LET existingMapping == FindRoomMapping(roomMappings, CallSource(c), "r_src_1",
                                           txs[c].hotelMapping[1].id)
    IN /\ txs[c].pc = "findRoomMapping"
       /\ MayStep(c)
       /\ txs' = IF existingMapping >= 1
                 THEN [txs EXCEPT ![c].existingMapping = existingMapping,
                                  ![c].roomId = roomMappings[existingMapping].roomId,
                                  ![c].currentRoom =
                                      Some(rooms[roomMappings[existingMapping].roomId]),
                                  ![c].pc = "updateRoomMapping"]
                 ELSE [txs EXCEPT ![c].pc = "findRoom"]
       /\ UNCHANGED store
       /\ TxFrame

\* tx.roomMapping.update of the mapping found; rows are never deleted and a
\* row is written by the calls of its own source only, so the row read is
\* the row stored
TxUpdateRoomMapping(c) ==
    LET t == txs[c]
    IN /\ t.pc = "updateRoomMapping"
       /\ MayStep(c)
       /\ roomMappings' =
             [roomMappings EXCEPT ![t.existingMapping] =
                 UpdatedMapping(roomMappings[t.existingMapping], t.roomData[1],
                                calculateQualityScore(t.roomData[1]),
                                OptConfidence(DefaultOptions),
                                OptMappingType(DefaultOptions), clock + 1)]
       /\ txs' = [txs EXCEPT ![c].pc = AfterMapping(t.currentRoom[1], t.roomData[1])]
       /\ UNCHANGED <<rooms, conflicts, enrichments>>
       /\ TxFrame

\* tx.room.findFirst({where: {hotelId, name}})
TxFindRoom(c) ==
    LET t == txs[c]
        existingRoom == FindRoomByName(rooms, t.hotelMapping[1].hotelId, t.roomData[1].name)
    IN /\ t.pc = "findRoom"
       /\ MayStep(c)
       /\ txs' = IF existingRoom >= 1
                 THEN [txs EXCEPT ![c].roomId = rooms[existingRoom].id,
                                  ![c].currentRoom = Some(rooms[existingRoom]),
                                  ![c].pc = "createRoomMapping"]
                 ELSE [txs EXCEPT ![c].pc = "createRoom"]
       /\ UNCHANGED store
       /\ TxFrame

\* tx.room.create
TxCreateRoom(c) ==
    LET t == txs[c]
        newRoom == NewRoom(rooms, t.hotelMapping[1].hotelId, t.roomData[1])
    IN /\ t.pc = "createRoom"
       /\ MayStep(c)
       /\ rooms' = Append(rooms, newRoom)
       /\ txs' = [txs EXCEPT ![c].roomId = newRoom.id,
                             ![c].currentRoom = Some(newRoom),
                             ![c].pc = "createRoomMapping"]
       /\ UNCHANGED <<roomMappings, conflicts, enrichments>>
       /\ TxFrame

\* tx.roomMapping.create
TxCreateRoomMapping(c) ==
    LET t == txs[c]
    IN /\ t.pc = "createRoomMapping"
       /\ MayStep(c)
       /\ roomMappings' =
             Append(roomMappings,
                    NewMapping(t.roomId, t.hotelMapping[1].id, CallSource(c), "r_src_1",
                               t.roomData[1], DefaultOptions, clock + 1))
       /\ txs' = [txs EXCEPT ![c].pc = AfterMapping(t.currentRoom[1], t.roomData[1])]
       /\ UNCHANGED <<rooms, conflicts, enrichments>>
       /\ TxFrame

\* upsertConflict up to its read: tx.mappingConflict.findFirst of the open
\* conflict, then conflictEntry
TxFindConflict(c) ==
    LET t == txs[c]
        existing == FindOpenConflict(conflicts, "room", t.currentRoom[1].id, "maxOccupancy")
    IN /\ t.pc = "findConflict"
       /\ MayStep(c)
       /\ txs' = [txs EXCEPT ![c].existing = IF existing >= 1 THEN Some(conflicts[existing])
                                              ELSE None,
                             ![c].conflictEntry =
                                 Some([source |-> CallSource(c),
                                       value |-> t.roomData[1].max_occupancy[1],
                                       detectedAt |-> clock + 1]),
                             ![c].pc = "writeConflict"]
       /\ UNCHANGED store
       /\ TxFrame

\* data of tx.mappingConflict.create
CreatedConflict(cs, entityId, conflictEntry, currentValue, now) ==
    [id |-> Len(cs) + 1,
     entityType |-> "room",
     entityId |-> entityId,
     fieldName |-> "maxOccupancy",
     conflictingSources |-> NewConflictSources(conflictEntry, currentValue, now),
     status |-> "open",
     resolution |-> None,
     resolvedAt |-> None]

\* upsertConflict from its read on: the list read, with the entry of the
\* source replaced or appended, is written back whole
\* (tx.mappingConflict.update), or the conflict is created
TxWriteConflict(c) ==
    LET t == txs[c]
    IN /\ t.pc = "writeConflict"
       /\ MayStep(c)
       /\ conflicts' =
             IF t.existing # None
             THEN [conflicts EXCEPT ![FindConflict(conflicts, t.existing[1].id)]
                                        .conflictingSources =
                      UpsertSourceEntry(t.existing[1].conflictingSources,
                                        t.conflictEntry[1])]
             ELSE Append(conflicts,
                         CreatedConflict(conflicts, t.currentRoom[1].id, t.conflictEntry[1],
                                         t.currentRoom[1].maxOccupancy, clock + 1))
       /\ txs' = [txs EXCEPT ![c].pc = AfterEnrichment(t.roomData[1], "none")]
       /\ UNCHANGED <<rooms, roomMappings, enrichments>>
       /\ TxFrame

\* The field an enrichment step of the callback is about
EnrichmentField(pc) ==
    IF pc \in {"findImages", "writeImages"} THEN "images" ELSE "amenities"

\* upsertRoomEnrichment up to its read: tx.roomContentEnrichment.findFirst
TxFindEnrichment(c) ==
    LET t == txs[c]
    IN /\ t.pc \in {"findImages", "findAmenities"}
       /\ MayStep(c)
       /\ txs' = [txs EXCEPT ![c].existingEnrichment =
                                 FindEnrichment(enrichments, t.roomId, CallSource(c),
                                                EnrichmentField(t.pc)),
                             ![c].pc = IF t.pc = "findImages" THEN "writeImages"
                                       ELSE "writeAmenities"]
       /\ UNCHANGED store
       /\ TxFrame

\* upsertRoomEnrichment from its read on: update of the row found, or create
TxWriteEnrichment(c) ==
    LET t == txs[c]
        fieldName == EnrichmentField(t.pc)
        content == IF fieldName = "images" THEN t.roomData[1].photos
                   ELSE t.roomData[1].amenities
    IN /\ t.pc \in {"writeImages", "writeAmenities"}
       /\ MayStep(c)
       /\ enrichments' =
             IF t.existingEnrichment >= 1
             THEN [enrichments EXCEPT ![t.existingEnrichment].content = content,
                                      ![t.existingEnrichment].enrichedAt = clock + 1,
                                      ![t.existingEnrichment].quality = "pending"]
             ELSE Append(enrichments,
                         [roomId |-> t.roomId, source |-> CallSource(c),
                          fieldName |-> fieldName, content |-> content,
                          quality |-> "pending", enrichedAt |-> clock + 1])
       /\ txs' = [txs EXCEPT ![c].pc = AfterEnrichment(t.roomData[1], fieldName)]
       /\ UNCHANGED <<rooms, roomMappings, conflicts>>
       /\ TxFrame

\* The callback returns and $transaction commits: mapRoom resolves
TxCommit(c) ==
    /\ txs[c].pc = "commit"
    /\ MayStep(c)
    /\ txs' = [txs EXCEPT ![c] = [TxIdle EXCEPT !.pc = "done",
                                                !.roomData = txs[c].roomData]]
    /\ UNCHANGED store
    /\ TxFrame

\* ------------------------------------------------------------ specification

\* The service as constructed over an empty datastore, no call made yet
Constructed ==
    /\ rooms = <<>>
    /\ roomMappings = <<>>
    /\ conflicts = <<>>
    /\ enrichments = <<>>
    /\ events = <<>>
    /\ clock = 0
    /\ lastOp = [op |-> "none", result |-> "ok"]

Init ==
    /\ Constructed
    /\ NoCalls
    /\ ParserInit

\* Conflict ids a caller may name: every stored id and one that is not stored
ConflictIdInputs == 1..(Len(conflicts) + 1)

Next ==
    \/ \E h \in HotelSourceIds, r \in RoomSourceIds, s \in Sources,
          d \in RoomInputs, o \in OptionInputs : MapRoom(h, r, s, d, o)
    \/ \E id \in ConflictIdInputs, in \in ResolveInputs :
          ResolveConflict(id, in[1], in[2])
    \/ \E roomId \in 1..Len(rooms), item \in EnrichItemInputs :
          EnrichRoomContent(roomId, <<item>>)
    \/ BulkRecalculateQualityScores

Spec == Init /\ [][Next]_vars

\* Feed ingestion alone: mapRoom calls, one committed transaction after another
FeedNext ==
    \E h \in FeedHotelSourceIds, r \in FeedRoomSourceIds, s \in FeedSources,
       d \in FeedRoomInputs : MapRoom(h, r, s, d, DefaultOptions)

FeedSpec == Init /\ [][FeedNext]_vars

\* The reader of the unified view next to the review tool's promotions
UnifiedInit ==
    /\ rooms \in CatalogRoomTables
    /\ roomMappings = <<>>
    /\ conflicts = <<>>
    /\ enrichments = <<>>
    /\ events = <<>>
    /\ clock = 0
    /\ lastOp = [op |-> "none", result |-> "ok"]
    /\ NoCalls
    /\ ParserInit

\* Room ids a reader may name: every stored id and one that is not stored
RoomIdInputs == 1..(Len(rooms) + 1)

UnifiedNext ==
    \/ \E roomId \in 1..Len(rooms), item \in ReviewItemInputs :
          EnrichRoomContent(roomId, <<item>>)
    \/ \E roomId \in RoomIdInputs : GetUnifiedRoomData(roomId)

UnifiedSpec == UnifiedInit /\ [][UnifiedNext]_vars

\* The conflict dashboard with subscribers of conflict:resolved that may
\* throw: feeds of two providers raise conflicts, the dashboard resolves them
SubscriberNext ==
    \/ \E s \in FeedSources, d \in RoomInputs :
          MapRoom("h_src_1", "r_src_1", s, d, DefaultOptions)
    \/ \E id \in ConflictIdInputs, in \in ResolveInputs, listenerThrows \in BOOLEAN :
          ResolveConflictWith(id, in[1], in[2], listenerThrows)

SubscriberSpec == Init /\ [][SubscriberNext]_vars

\* Number of mapRoom calls that complete before the two calls in flight start
MaxEarlierCalls == 2

\* The datastore the deployment runs on: one that serializes transactions,
\* or one whose $transaction only invokes the callback
ConcurrentInit ==
    /\ Constructed
    /\ ParserInit
    /\ txs = [c \in Calls |-> TxIdle]
    /\ isolation \in {"serializable", "none"}
    /\ recalc = RecalcIdle
    /\ finished = {}

\* Earlier feeds, each call completing before the next; then two calls in
\* flight at once
ConcurrentNext ==
    \/ /\ clock < MaxEarlierCalls
       /\ \A c \in Calls : txs[c].pc = "idle"
       /\ \E s \in FeedSources, d \in EarlierRoomInputs :
             MapRoom("h_src_1", "r_src_1", s, d, DefaultOptions)
    \/ \E c \in Calls :
          \/ \E d \in ConcurrentRoomInputs : TxFindHotelMapping(c, d)
          \/ TxFindRoomMapping(c)
          \/ TxUpdateRoomMapping(c)
          \/ TxFindRoom(c)
          \/ TxCreateRoom(c)
          \/ TxCreateRoomMapping(c)
          \/ TxFindConflict(c)
          \/ TxWriteConflict(c)
          \/ TxFindEnrichment(c)
          \/ TxWriteEnrichment(c)
          \/ TxCommit(c)

ConcurrentSpec == ConcurrentInit /\ [][ConcurrentNext]_vars

\* A feed document read by HotelRoomFeedParser.parse: any well-formed
\* sequence of at most MaxEvents tokenizer events, nested at most MaxDepth
\* deep, over the tags of ParserTags and the text chunks of ParserTexts
ParserTags ==
    { [name |-> "Hotels", attributes |-> {}],
      [name |-> "Hotel", attributes |-> {<<"HotelCode", "H100">>}],
      [name |-> "Property", attributes |-> {<<"id", "H200">>}],
      [name |-> "Hotel", attributes |-> {}],
      [name |-> "Room", attributes |-> {<<"id", "R1">>, <<"name", "Deluxe King">>}],
      [name |-> "GuestRoom", attributes |-> {<<"RoomTypeCode", "R2">>}],
      [name |-> "TypeRoom", attributes |-> {<<"name", "Ocean View Suite">>,
                                            <<"RoomTypeCode", "OVS_99">>}],
      [name |-> "Name", attributes |-> {}] }

ParserTexts == {" ", "Room 1"}

ParserNext ==
    \/ \E tag \in ParserTags : OpenTag(tag)
    \/ \E chunk \in ParserTexts : Text(chunk)
    \/ CloseTag
    \/ ParserError
    \/ End

ParserSpec == Init /\ [][ParserNext]_vars

\* Feed documents about beds: room elements with attribute-style Bed elements
\* and text-style BedType elements
BedTags ==
    { [name |-> "Room", attributes |-> {<<"id", "R1">>, <<"name", "Deluxe King">>}],
      [name |-> "Bed", attributes |-> {<<"type", "King">>, <<"count", "2">>}],
      [name |-> "Bed", attributes |-> {<<"type", "Queen">>}],
      [name |-> "BedType", attributes |-> {}] }

BedTexts == {" ", "King", "KING", "Queen"}

BedNext ==
    \/ \E tag \in BedTags : OpenTag(tag)
    \/ \E chunk \in BedTexts : Text(chunk)
    \/ CloseTag
    \/ End

BedSpec == Init /\ [][BedNext]_vars

\* The scorer applied to the room records a feed can give: every field
\* absent, empty or filled
Bed1 == <<[type |-> "king", count |-> 1]>>

Rate1 == <<[id |-> "rate_123", total_amount |-> "150.00", total_currency |-> "GBP"]>>

ScoredRoomInputs ==
    [name : {"", "Standard Room"},
     max_occupancy : {None, Some(0), Some(2), Some(NaN)},
     beds : {<<>>, Bed1},
     photos : {<<>>, Photo1},
     amenities : {<<>>, Amenity1},
     attributes : [class : {"", "Suite"}, view : {"", "Ocean"}],
     rates : {<<>>, Rate1}]

CalculateQualityScore(room) ==
    /\ lastOp' = [op |-> "calculateQualityScore", room |-> room,
                  result |-> calculateQualityScore(room)]
    /\ UNCHANGED <<store, events, clock, callVars, parserVars>>

ScoreNext == \E room \in ScoredRoomInputs : CalculateQualityScore(room)

ScoreSpec == Init /\ [][ScoreNext]_vars

\* ------------------------------------------------------------------ claims

SameKey(c, d) ==
    c.entityType = d.entityType /\ c.entityId = d.entityId /\ c.fieldName = d.fieldName

\* The hotel mapping a mapRoom call looks up exists
HasHotelMapping(source, hotelSourceId) ==
    \E h \in HotelMappings : h.source = source /\ h.sourceId = hotelSourceId

\* The id of that hotel mapping
HotelMappingIdOf(source, hotelSourceId) ==
    (CHOOSE h \in HotelMappings : h.source = source /\ h.sourceId = hotelSourceId).id

\* The RoomMapping rows with the key of the mapRoom call op
RowsOfCall(ms, op) ==
    {i \in 1..Len(ms) : /\ ms[i].source = op.source
                        /\ ms[i].sourceId = op.roomSourceId
                        /\ ms[i].hotelMappingId =
                               HotelMappingIdOf(op.source, op.hotelSourceId)}

\* The entries of a conflict recorded for one source
EntriesOf(conflict, source) ==
    {k \in 1..Len(conflict.conflictingSources) :
        conflict.conflictingSources[k].source = source}

\* C1: in every state reached by mapRoom and resolveConflict calls, no two
\* conflicts with status open have the same (entityType, entityId, fieldName).
C1_OneOpenConflictPerKey ==
    \A i, j \in 1..Len(conflicts) :
        (conflicts[i].status = "open" /\ conflicts[j].status = "open"
         /\ SameKey(conflicts[i], conflicts[j])) => i = j

\* C1 witness: two providers have disagreed with the same canonical room and
\* both observations sit in the one open conflict of that room.
C1_Witness ==
    \E i \in 1..Len(conflicts) :
        /\ conflicts[i].status = "open"
        /\ EntriesOf(conflicts[i], "provider_a") # {}
        /\ EntriesOf(conflicts[i], "provider_b") # {}

C2_Step ==
    /\ \A i \in 1..Len(roomMappings) :
          roomMappings[i].mappingType = "verified" =>
              /\ Len(roomMappings') >= i
              /\ roomMappings'[i].mappingType = "verified"
    /\ (lastOp'.op = "mapRoom" /\ HasHotelMapping(lastOp'.source, lastOp'.hotelSourceId)) =>
          \A i \in RowsOfCall(roomMappings, lastOp') :
              roomMappings[i].mappingType = "verified" =>
                  /\ roomMappings'[i].confidence = roomMappings[i].confidence
                  /\ roomMappings'[i].mappingType = roomMappings[i].mappingType
                  /\ roomMappings'[i].sourceData = Some(lastOp'.roomData)
                  /\ roomMappings'[i].qualityScore = calculateQualityScore(lastOp'.roomData)
                  /\ roomMappings'[i].lastSyncedAt = clock'

\* C2: a mapRoom call on the key of a RoomMapping whose mappingType is
\* verified leaves that row's confidence and mappingType as they were, whatever
\* options it passes, and sets sourceData, qualityScore and lastSyncedAt from
\* the call; no call ever takes a row out of verified.
C2_VerifiedMappingProtected == [][C2_Step]_vars

\* C2 witness: a row that is verified with confidence 1.0 has just been
\* re-ingested by a call with default options (automatic, 0.8) and a
\* different record.
C2_Witness ==
    /\ lastOp.op = "mapRoom"
    /\ lastOp.options.mappingType = None
    /\ ~lastOp.repeated
    /\ \E i \in 1..Len(roomMappings) :
          /\ roomMappings[i].source = lastOp.source
          /\ roomMappings[i].sourceId = lastOp.roomSourceId
          /\ roomMappings[i].mappingType = "verified"
          /\ roomMappings[i].confidence = 10
          /\ roomMappings[i].lastSyncedAt = clock
          /\ roomMappings[i].sourceData = Some(lastOp.roomData)
          /\ clock >= 2

C3_Unique ==
    \A i, j \in 1..Len(roomMappings) :
        (/\ roomMappings[i].source = roomMappings[j].source
         /\ roomMappings[i].sourceId = roomMappings[j].sourceId
         /\ roomMappings[i].hotelMappingId = roomMappings[j].hotelMappingId) => i = j

C3_Step ==
    (/\ lastOp'.op = "mapRoom"
     /\ lastOp'.repeated
     /\ HasHotelMapping(lastOp'.source, lastOp'.hotelSourceId)) =>
        /\ Cardinality(RowsOfCall(roomMappings', lastOp')) = 1
        /\ RowsOfCall(roomMappings', lastOp') = RowsOfCall(roomMappings, lastOp')
        /\ Len(roomMappings') = Len(roomMappings)
        /\ \A i \in RowsOfCall(roomMappings, lastOp') :
              roomMappings'[i].qualityScore = roomMappings[i].qualityScore

\* C3: RoomMapping rows are unique per (source, sourceId, hotelMappingId) in
\* every state, and a mapRoom call that repeats the (hotelSourceId,
\* roomSourceId, source, room) of the call before it (parent hotel mapped)
\* adds no row: the key still has exactly one row, with the qualityScore the
\* first call left.
C3_MapRoomIdempotent == []C3_Unique /\ [][C3_Step]_vars

\* C3 witness: the same mapRoom call has run twice in a row on a mapped hotel
\* while another source's row exists too.
C3_Witness ==
    /\ lastOp.op = "mapRoom"
    /\ lastOp.repeated
    /\ HasHotelMapping(lastOp.source, lastOp.hotelSourceId)
    /\ Len(roomMappings) = 2
    /\ \E i \in RowsOfCall(roomMappings, lastOp) : roomMappings[i].lastSyncedAt = clock

\* The canonical room a mapRoom call on an existing mapping compares with
CanonicalOccupancyOfCall(op) ==
    {rooms[roomMappings[i].roomId].maxOccupancy : i \in RowsOfCall(roomMappings, op)}

\* The open conflicts on the maxOccupancy of the room of the call op
OpenConflictsOfCall(cs, ms, op) ==
    {c \in 1..Len(cs) : /\ cs[c].status = "open"
                        /\ cs[c].entityType = "room"
                        /\ cs[c].fieldName = "maxOccupancy"
                        /\ \E i \in RowsOfCall(ms, op) : cs[c].entityId = ms[i].roomId}

C4_Step ==
    (/\ lastOp.op = "mapRoom"
     /\ lastOp'.op = "mapRoom"
     /\ lastOp'.source = lastOp.source
     /\ lastOp'.hotelSourceId = lastOp.hotelSourceId
     /\ lastOp'.roomSourceId = lastOp.roomSourceId
     /\ HasHotelMapping(lastOp'.source, lastOp'.hotelSourceId)
     /\ lastOp.roomData.max_occupancy # None
     /\ lastOp'.roomData.max_occupancy # None
     /\ lastOp.roomData.max_occupancy # lastOp'.roomData.max_occupancy
     /\ \A m \in CanonicalOccupancyOfCall(lastOp') :
           /\ m # lastOp.roomData.max_occupancy[1]
           /\ m # lastOp'.roomData.max_occupancy[1]) =>
        /\ Cardinality(OpenConflictsOfCall(conflicts', roomMappings', lastOp')) = 1
        /\ \A c \in OpenConflictsOfCall(conflicts', roomMappings', lastOp') :
              /\ Cardinality(EntriesOf(conflicts'[c], lastOp'.source)) = 1
              /\ \A k \in EntriesOf(conflicts'[c], lastOp'.source) :
                    conflicts'[c].conflictingSources[k].value =
                        lastOp'.roomData.max_occupancy[1]

\* C4: two consecutive mapRoom calls from one source for one source room,
\* carrying different max_occupancy values that both differ from the canonical
\* room's maxOccupancy, leave a single open conflict on that room with exactly
\* one entry for the source, holding the value of the later call.
C4_ConflictMergeLatestValue == [][C4_Step]_vars

C5_Step ==
    (/\ lastOp'.op = "resolveConflict"
     /\ lastOp'.resolutionStrategy = "apply_source"
     /\ lastOp'.sourceToApply # None
     /\ lastOp'.conflictId \in 1..Len(conflicts)) =>
        LET c == conflicts[lastOp'.conflictId]
        IN (c.entityType = "room" /\ EntriesOf(c, lastOp'.sourceToApply[1]) # {}) =>
              /\ lastOp'.result = "ok"
              /\ \A k \in EntriesOf(c, lastOp'.sourceToApply[1]) :
                    rooms'[c.entityId].maxOccupancy = c.conflictingSources[k].value
              /\ conflicts'[lastOp'.conflictId].status = "resolved"

\* C5: resolveConflict(id, apply_source, S) on a room conflict that has an
\* entry for S succeeds, writes the value recorded for S into the canonical
\* room's maxOccupancy and sets the conflict's status to resolved.
C5_ApplySourceWritesValue == [][C5_Step]_vars

\* C5 witness: a conflict with internal = 2 and provider_b = 4 has been
\* resolved with apply_source provider_b, and the room's maxOccupancy is 4.
C5_Witness ==
    /\ lastOp.op = "resolveConflict"
    /\ lastOp.resolutionStrategy = "apply_source"
    /\ lastOp.sourceToApply = Some("provider_b")
    /\ lastOp.result = "ok"
    /\ LET c == conflicts[lastOp.conflictId]
       IN /\ c.status = "resolved"
          /\ \E k \in EntriesOf(c, "internal") : c.conflictingSources[k].value = 2
          /\ \E k \in EntriesOf(c, "provider_b") : c.conflictingSources[k].value = 4
          /\ rooms[c.entityId].maxOccupancy = 4

C6_Step ==
    (/\ lastOp'.op = "resolveConflict"
     /\ lastOp'.resolutionStrategy = "apply_source"
     /\ lastOp'.sourceToApply # None
     /\ lastOp'.conflictId \in 1..Len(conflicts)
     /\ EntriesOf(conflicts[lastOp'.conflictId], lastOp'.sourceToApply[1]) = {}) =>
        /\ lastOp'.result = "error"
        /\ conflicts' = conflicts
        /\ rooms' = rooms
        /\ events' = events

\* C6: resolveConflict with apply_source naming a source that has no entry
\* in the conflict fails; every conflict (so an open one stays open), every
\* room and the list of emitted conflict:resolved events are as before.
C6_UnknownSourceFails == [][C6_Step]_vars

\* C6 witness: apply_source has just failed on an open conflict that has no
\* entry for the named provider.
C6_Witness ==
    /\ lastOp.op = "resolveConflict"
    /\ lastOp.result = "error"
    /\ lastOp.error = "Source not found in conflict"
    /\ lastOp.sourceToApply # None
    /\ conflicts[lastOp.conflictId].status = "open"
    /\ EntriesOf(conflicts[lastOp.conflictId], lastOp.sourceToApply[1]) = {}
    /\ events = <<>>

C7_Step ==
    (/\ lastOp'.op = "resolveConflict"
     /\ lastOp'.result = "ok") =>
        LET c == conflicts[lastOp'.conflictId]
        IN /\ lastOp'.resolutionStrategy = "keep_internal" => rooms' = rooms
           /\ lastOp'.resolutionStrategy = "apply_source" =>
                 /\ lastOp'.sourceToApply # None
                 /\ \E k \in EntriesOf(c, lastOp'.sourceToApply[1]) :
                       rooms'[c.entityId].maxOccupancy = c.conflictingSources[k].value

\* C7: after every successful resolveConflict the canonical rooms are
\* unchanged under keep_internal, and under apply_source the room's field holds
\* the value the conflict records for sourceToApply: no conflict is resolved
\* with apply_source without that value written.
C7_ResolveWritesOrKeeps == [][C7_Step]_vars

C8_Step ==
    (/\ lastOp'.op = "resolveConflict"
     /\ \A i \in 1..Len(conflicts) : conflicts[i].id # lastOp'.conflictId) =>
        /\ lastOp'.result = "error"
        /\ lastOp'.error = "Conflict not found"
        /\ UNCHANGED <<rooms, roomMappings, conflicts, enrichments, events>>

\* C8: resolveConflict on an id no conflict has fails with "Conflict not
\* found", writes no table and emits no event.
C8_UnknownConflictFails == [][C8_Step]_vars

\* C8 witness: with a conflict stored, a call naming another id has failed
\* with not-found.
C8_Witness ==
    /\ lastOp.op = "resolveConflict"
    /\ lastOp.result = "error"
    /\ lastOp.error = "Conflict not found"
    /\ Len(conflicts) >= 1
    /\ lastOp.conflictId = Len(conflicts) + 1

C9_Step ==
    /\ \A i \in 1..Len(conflicts) :
          conflicts[i].status = "resolved" =>
              /\ Len(conflicts') >= i
              /\ conflicts'[i].status = "resolved"
              /\ conflicts'[i].conflictingSources = conflicts[i].conflictingSources
    /\ (/\ lastOp'.op = "mapRoom"
        /\ conflicts' # conflicts
        /\ \A i \in 1..Len(conflicts) : conflicts[i].status = "resolved") =>
          /\ Len(conflicts') = Len(conflicts) + 1
          /\ conflicts'[Len(conflicts')].status = "open"
          /\ \A i \in 1..Len(conflicts) : conflicts'[i] = conflicts[i]

\* C9: a conflict with status resolved keeps that status and its
\* conflictingSources through every call of mapRoom, resolveConflict,
\* enrichRoomContent and bulkRecalculateQualityScores; when mapRoom records a
\* disagreement while every stored conflict is resolved, it adds a new open
\* conflict and leaves the stored ones as they are.
C9_ResolutionTerminal == [][C9_Step]_vars

\* C9 witness: mapRoom has just recorded a disagreement on a key whose
\* earlier conflict is resolved: that one is still resolved and a second,
\* open conflict exists for the key.
C9_Witness ==
    /\ lastOp.op = "mapRoom"
    /\ \E i, j \in 1..Len(conflicts) :
          /\ i < j
          /\ conflicts[i].status = "resolved"
          /\ conflicts[j].status = "open"
          /\ SameKey(conflicts[i], conflicts[j])
          /\ \E k \in 1..Len(conflicts[j].conflictingSources) :
                conflicts[j].conflictingSources[k].detectedAt = clock

C10_Step ==
    (/\ lastOp'.op = "mapRoom"
     /\ ~HasHotelMapping(lastOp'.source, lastOp'.hotelSourceId)) =>
        /\ lastOp'.result = "ok"
        /\ UNCHANGED <<rooms, roomMappings, conflicts, enrichments>>

\* C10: a mapRoom call for a (source, hotelSourceId) that has no HotelMapping
\* returns without error and leaves the Room, RoomMapping, MappingConflict and
\* RoomContentEnrichment tables as they were.
C10_MissingHotelSkipped == [][C10_Step]_vars

\* C10 witness: with rows already stored, a record of the unmapped source
\* carrying photos has been skipped with a warning.
C10_Witness ==
    /\ lastOp.op = "mapRoom"
    /\ lastOp.warned
    /\ lastOp.result = "ok"
    /\ ~HasHotelMapping(lastOp.source, lastOp.hotelSourceId)
    /\ Len(lastOp.roomData.photos) > 0
    /\ Len(roomMappings) >= 1
    /\ enrichments = <<>>

C11_Unique ==
    \A i, j \in 1..Len(rooms) :
        (rooms[i].hotelId = rooms[j].hotelId /\ rooms[i].name = rooms[j].name) => i = j

\* The canonical rooms of the hotel of the mapRoom call op that carry its name
RoomsNamedByCall(rs, op) ==
    {i \in 1..Len(rs) :
        /\ rs[i].name = op.roomData.name
        /\ \E h \in HotelMappings : /\ h.source = op.source
                                    /\ h.sourceId = op.hotelSourceId
                                    /\ h.hotelId = rs[i].hotelId}

C11_Step ==
    (/\ lastOp'.op = "mapRoom"
     /\ RoomsNamedByCall(rooms, lastOp') # {}) =>
        /\ rooms' = rooms
        /\ Len(roomMappings') > Len(roomMappings) =>
              roomMappings'[Len(roomMappings')].roomId \in RoomsNamedByCall(rooms, lastOp')

\* C11: after any sequence of committed mapRoom calls (two sources, two
\* hotels, two source room ids, two names) no two canonical Rooms have the
\* same (hotelId, name); a call whose hotel already has a Room of the
\* record's name creates no Room, and the RoomMapping it adds points at that
\* Room.
C11_OneRoomPerHotelName == []C11_Unique /\ [][C11_Step]_vars

\* C11 witness: Rooms of one name exist in both hotels, and the last call
\* linked a second source room to an existing Room instead of creating one.
C11_Witness ==
    /\ lastOp.op = "mapRoom"
    /\ Len(rooms) = 2
    /\ rooms[1].name = rooms[2].name
    /\ rooms[1].hotelId # rooms[2].hotelId
    /\ Len(roomMappings) = 3
    /\ roomMappings[3].lastSyncedAt = clock
    /\ \E i \in 1..2 : /\ roomMappings[i].roomId = roomMappings[3].roomId
                        /\ <<roomMappings[i].source, roomMappings[i].sourceId>> #
                              <<roomMappings[3].source, roomMappings[3].sourceId>>

\* The RoomContentEnrichment rows of one (roomId, source, fieldName)
EnrichmentRows(es, roomId, source, fieldName) ==
    {i \in 1..Len(es) : /\ es[i].roomId = roomId
                        /\ es[i].source = source
                        /\ es[i].fieldName = fieldName}

\* The fields mapRoom enriches from the record, with the content it stores
EnrichedFieldsOfCall(op) ==
    (IF Len(op.roomData.photos) > 0
     THEN {[fieldName |-> "images", content |-> op.roomData.photos]} ELSE {})
    \cup
    (IF Len(op.roomData.amenities) > 0
     THEN {[fieldName |-> "amenities", content |-> op.roomData.amenities]} ELSE {})

\* The canonical room ids the mapRoom call op is linked to after it
RoomIdsOfCall(ms, op) ==
    {ms[i].roomId : i \in RowsOfCall(ms, op)}

C13_Step ==
    (/\ lastOp'.op = "mapRoom"
     /\ HasHotelMapping(lastOp'.source, lastOp'.hotelSourceId)) =>
        \A f \in EnrichedFieldsOfCall(lastOp'), roomId \in RoomIdsOfCall(roomMappings', lastOp') :
            \A i \in EnrichmentRows(enrichments, roomId, lastOp'.source, f.fieldName) :
                /\ enrichments'[i].content = f.content
                /\ enrichments'[i].enrichedAt = clock'
                /\ enrichments'[i].quality = enrichments[i].quality

\* C13: a mapRoom call carrying photos or amenities for a (roomId, source,
\* fieldName) that already has an enrichment row sets that row's content and
\* enrichedAt and leaves its quality as it was.
C13_ReingestKeepsQuality == [][C13_Step]_vars

C14_Unique ==
    \A i, j \in 1..Len(enrichments) :
        (/\ enrichments[i].roomId = enrichments[j].roomId
         /\ enrichments[i].source = enrichments[j].source
         /\ enrichments[i].fieldName = enrichments[j].fieldName) => i = j

C14_Step ==
    /\ Len(enrichments') >= Len(enrichments)
    /\ \A i \in 1..Len(enrichments) :
          /\ enrichments'[i].roomId = enrichments[i].roomId
          /\ enrichments'[i].source = enrichments[i].source
          /\ enrichments'[i].fieldName = enrichments[i].fieldName
    /\ \A i \in (Len(enrichments) + 1)..Len(enrichments') :
          EnrichmentRows(enrichments, enrichments'[i].roomId, enrichments'[i].source,
                         enrichments'[i].fieldName) = {}
    /\ lastOp'.op = "enrichRoomContent" =>
          \A k \in 1..Len(lastOp'.items) :
              Cardinality(EnrichmentRows(enrichments', lastOp'.roomId,
                                         lastOp'.items[k].source,
                                         lastOp'.items[k].fieldName)) = 1

\* C14: in every state there is at most one RoomContentEnrichment row per
\* (roomId, source, fieldName); every call keeps the stored rows in place with
\* their keys and appends a row only for a key that had none, and after
\* enrichRoomContent each of its items' keys has exactly one row.
C14_OneEnrichmentPerKey == []C14_Unique /\ [][C14_Step]_vars

\* C14 witness: the same record with photos has been ingested twice in a row
\* and its images row is still the only row, stamped by the second call.
C14_Witness ==
    /\ lastOp.op = "mapRoom"
    /\ lastOp.repeated
    /\ HasHotelMapping(lastOp.source, lastOp.hotelSourceId)
    /\ Len(lastOp.roomData.photos) > 0
    /\ Len(enrichments) = 1
    /\ enrichments[1].source = lastOp.source
    /\ enrichments[1].fieldName = "images"
    /\ enrichments[1].enrichedAt = clock

\* The approved images rows of a room, as indexes of the enrichment table
ApprovedImagesOf(roomId) ==
    {i \in 1..Len(enrichments) : /\ enrichments[i].roomId = roomId
                                 /\ enrichments[i].fieldName = "images"
                                 /\ enrichments[i].quality = "approved"}

C15_Returned ==
    lastOp.op = "getUnifiedRoomData" =>
        IF \A i \in 1..Len(rooms) : rooms[i].id # lastOp.roomId
        THEN lastOp.returned = None
        ELSE /\ lastOp.returned # None
             /\ \A i \in 1..Len(rooms) :
                   rooms[i].id = lastOp.roomId =>
                      LET room == rooms[i]
                          unified == lastOp.returned[1]
                      IN /\ \A k \in DOMAIN room \ {"photos"} : unified[k] = room[k]
                         /\ ApprovedImagesOf(room.id) # {} =>
                               \E e \in ApprovedImagesOf(room.id) :
                                   unified.photos = enrichments[e].content
                         /\ ApprovedImagesOf(room.id) = {} =>
                               IF "photos" \in DOMAIN room
                               THEN unified.photos = room.photos
                               ELSE "photos" \notin DOMAIN unified

C15_Step ==
    lastOp'.op = "getUnifiedRoomData" =>
        UNCHANGED <<rooms, roomMappings, conflicts, enrichments, events>>

\* C15: getUnifiedRoomData returns null for an id no Room has; for a stored
\* Room it returns the Room's own fields, with photos equal to the content of
\* an approved images row of that room when there is one, and equal to the
\* Room's own photos (absent when the Room has none) when its images rows are
\* all pending or missing; the call writes no table and emits nothing.
C15_UnifiedRoomData == []C15_Returned /\ [][C15_Step]_vars

\* C15 witness: a Room with photos of its own has a pending images row stored
\* before an approved one, and the view just read carries the approved content.
C15_Witness ==
    /\ lastOp.op = "getUnifiedRoomData"
    /\ lastOp.returned # None
    /\ Len(enrichments) = 2
    /\ enrichments[1].fieldName = "images" /\ enrichments[1].quality = "pending"
    /\ enrichments[2].fieldName = "images" /\ enrichments[2].quality = "approved"
    /\ "photos" \in DOMAIN rooms[1]
    /\ rooms[1].photos = OriginalPhotos
    /\ lastOp.returned[1].photos = enrichments[2].content
    /\ enrichments[2].content # enrichments[1].content

C16_Step ==
    /\ lastOp'.op # "resolveConflict" => events' = events
    /\ (lastOp'.op = "resolveConflict" /\ lastOp'.result = "error") => events' = events
    /\ (lastOp'.op = "resolveConflict" /\ lastOp'.result = "ok") =>
          /\ Len(events') = Len(events) + 1
          /\ \A k \in 1..Len(events) : events'[k] = events[k]
          /\ \E c \in 1..Len(conflicts') :
                /\ conflicts'[c].id = lastOp'.conflictId
                /\ conflicts'[c].status = "resolved"
                /\ conflicts'[c].resolution = Some(lastOp'.resolutionStrategy)
                /\ conflicts'[c].resolvedAt = Some(clock')
                /\ events'[Len(events')] = conflicts'[c]

C17_Committed ==
    (lastOp'.op = "resolveConflict" /\ lastOp'.listenerThrew) =>
        LET c == conflicts[lastOp'.conflictId]
        IN /\ conflicts'[lastOp'.conflictId].status = "resolved"
           /\ (lastOp'.resolutionStrategy = "apply_source" /\ lastOp'.sourceToApply # None) =>
                 \E k \in EntriesOf(c, lastOp'.sourceToApply[1]) :
                     rooms'[c.entityId].maxOccupancy = c.conflictingSources[k].value

C17_Step ==
    /\ C17_Committed
    /\ (lastOp'.op = "resolveConflict" /\ lastOp'.listenerThrew) => lastOp'.result = "ok"

\* C17: when a conflict:resolved listener throws, the conflict is resolved
\* and the canonical field written all the same, and the resolveConflict call
\* completes successfully.
C17_FireAndForget == [][C17_Step]_vars

\* The open conflicts stored for the maxOccupancy of one room
OpenOccupancyConflicts(cs, roomId) ==
    {c \in 1..Len(cs) : /\ cs[c].status = "open"
                        /\ cs[c].entityType = "room"
                        /\ cs[c].entityId = roomId
                        /\ cs[c].fieldName = "maxOccupancy"}

C18_Step ==
    (/\ lastOp'.op = "mapRoom"
     /\ HasHotelMapping(lastOp'.source, lastOp'.hotelSourceId)
     /\ lastOp'.roomData.max_occupancy # None) =>
        \A roomId \in RoomIdsOfCall(roomMappings', lastOp') :
            (/\ rooms'[roomId].maxOccupancy # lastOp'.roomData.max_occupancy[1]
             /\ OpenOccupancyConflicts(conflicts, roomId) = {}) =>
                /\ Len(conflicts') = Len(conflicts) + 1
                /\ \A c \in 1..Len(conflicts) : conflicts'[c] = conflicts[c]
                /\ LET created == conflicts'[Len(conflicts')]
                   IN /\ created.status = "open"
                      /\ created.entityType = "room"
                      /\ created.entityId = roomId
                      /\ created.fieldName = "maxOccupancy"
                      /\ Len(created.conflictingSources) = 2
                      /\ created.conflictingSources[1].source = "internal"
                      /\ created.conflictingSources[1].value = rooms'[roomId].maxOccupancy
                      /\ created.conflictingSources[2].source = lastOp'.source
                      /\ created.conflictingSources[2].value =
                             lastOp'.roomData.max_occupancy[1]

\* C18: a mapRoom call whose record carries a max_occupancy different from
\* the maxOccupancy of the canonical room it is linked to, while that room
\* has no open maxOccupancy conflict, adds one conflict: open, keyed (room,
\* room id, maxOccupancy), with exactly the entries internal = canonical value
\* and source = incoming value, in that order.
C18_ConflictCreatedWithTwoEntries == [][C18_Step]_vars

\* Both calls in flight have returned
AllDone == \A c \in Calls : txs[c].pc = "done"

\* The max_occupancy call c reported
ReportedBy(c) == txs[c].roomData[1].max_occupancy[1]

\* The case of C12: the two calls, of different sources, have returned; the
\* one canonical room has a maxOccupancy that neither of them reported, so it
\* existed before both
C12_Case ==
    /\ AllDone
    /\ CallSource("call_a") # CallSource("call_b")
    /\ Len(rooms) = 1
    /\ \A c \in Calls : ReportedBy(c) # rooms[1].maxOccupancy

C12_BothEntries ==
    /\ Cardinality(OpenOccupancyConflicts(conflicts, rooms[1].id)) = 1
    /\ \A k \in OpenOccupancyConflicts(conflicts, rooms[1].id), c \in Calls :
          /\ Cardinality(EntriesOf(conflicts[k], CallSource(c))) = 1
          /\ \A e \in EntriesOf(conflicts[k], CallSource(c)) :
                conflicts[k].conflictingSources[e].value = ReportedBy(c)

\* C12: on a datastore that serializes transactions, once two mapRoom calls
\* in flight at once, from two sources, against one existing canonical room,
\* each reporting a max_occupancy other than the room's, have both returned,
\* the room has exactly one open maxOccupancy conflict and it holds exactly one
\* entry per source, with the value that source reported.
C12_SerializedKeepsBothEntries ==
    (isolation = "serializable" /\ C12_Case) => C12_BothEntries

\* C12 witness: serialized, both calls have returned after reporting different
\* values against a room of maxOccupancy 2, and the conflict names both.
C12_Witness ==
    /\ isolation = "serializable"
    /\ C12_Case
    /\ rooms[1].maxOccupancy = DefaultMaxOccupancy
    /\ ReportedBy("call_a") # ReportedBy("call_b")
    /\ \E k \in 1..Len(conflicts) :
          /\ EntriesOf(conflicts[k], "provider_a") # {}
          /\ EntriesOf(conflicts[k], "provider_b") # {}

\* The second half of C12: when the callbacks interleave, both calls can
\* return with the room's one open conflict holding no entry for one of them.
C12_EntryLost ==
    /\ isolation = "none"
    /\ C12_Case
    /\ Cardinality(OpenOccupancyConflicts(conflicts, rooms[1].id)) = 1
    /\ \E k \in OpenOccupancyConflicts(conflicts, rooms[1].id), c \in Calls :
          EntriesOf(conflicts[k], CallSource(c)) = {}

\* The calls of onRoomFound are in the order of the elements in the document
C19_InDocumentOrder ==
    \A i, j \in 1..Len(delivered) :
        i < j => delivered[i].element < delivered[j].element

\* A step that closes a room element calls onRoomFound once, with the room
\* of that element, when the document gave the element a name, and makes no
\* call and settles nothing when it gave none; no other step makes a call
C19_Step ==
    IF Len(openElements') < Len(openElements)
       /\ IsRoomTag(openElements[Len(openElements)].tag.name)
    THEN LET element == openElements[Len(openElements)]
         IN IF TruthyStr(element.name)
            THEN /\ Len(delivered') = Len(delivered) + 1
                 /\ SubSeq(delivered', 1, Len(delivered)) = delivered
                 /\ delivered'[Len(delivered')].element = element.position
                 /\ delivered'[Len(delivered')].room.name = element.name
            ELSE /\ delivered' = delivered
                 /\ settled' = settled
    ELSE delivered' = delivered

\* C19: during parse, onRoom is invoked exactly once for every fully closed
\* Room / GuestRoom element whose accumulated name is non-empty, in document
\* order of the elements, and is never invoked, and no error is raised, for a
\* room element whose name is empty at its close
C19_OncePerNamedRoom == []C19_InDocumentOrder /\ [][C19_Step]_vars

\* The innermost hotel wrapper among the open elements; 0 when there is none
NearestHotel(elements) ==
    IF \E i \in 1..Len(elements) : IsHotelTag(elements[i].tag.name)
    THEN CHOOSE i \in 1..Len(elements) :
            /\ IsHotelTag(elements[i].tag.name)
            /\ \A j \in (i + 1)..Len(elements) : ~IsHotelTag(elements[j].tag.name)
    ELSE 0

\* The id of the wrapper enclosing the innermost position of the document
EnclosingHotelId(elements) ==
    IF NearestHotel(elements) = 0 THEN None
    ELSE HotelIdOf(elements[NearestHotel(elements)].tag)

\* A call of onRoomFound passes the id of the wrapper around the room
\* element, and no id for a room element outside every wrapper
C20_Passed ==
    Len(delivered') > Len(delivered) =>
        delivered'[Len(delivered')].hotelId = EnclosingHotelId(openElements')

\* The current hotel id is set by the open tag of a wrapper and cleared by
\* its close
C20_SetAndCleared ==
    /\ (Len(openElements') > Len(openElements)
          /\ IsHotelTag(openElements'[Len(openElements')].tag.name))
        => currentHotelId' = HotelIdOf(openElements'[Len(openElements')].tag)
    /\ (Len(openElements') < Len(openElements)
          /\ IsHotelTag(openElements[Len(openElements)].tag.name))
        => currentHotelId' = None

\* What a room element that follows a closed wrapper is delivered with
C20_PassedAfterWrapper == [][C20_Passed]_vars

\* C20: the parser's current hotel id is set when a Hotel,
\* HotelDescriptiveContent or Property element opens and cleared when that
\* element closes, so the hotelId passed to onRoom is the id of the wrapper
\* element enclosing the room, and is absent for a room that is not inside
\* any wrapper, a room that follows an already closed wrapper included
C20_HotelIdOfEnclosingWrapper == [][C20_SetAndCleared /\ C20_Passed]_vars

\* A step in which the tokenizer reports an error
ErrorReported ==
    /\ eventCount' = eventCount + 1
    /\ openElements' = openElements
    /\ sinceOpenTag' = sinceOpenTag

\* An error fails the call; a failed call stays failed and delivers no room
C21_Step ==
    /\ ErrorReported => settled' = "rejected"
    /\ settled = "rejected" => (settled' = "rejected" /\ delivered' = delivered)

\* C21: a parse error in the markup aborts the whole parse: the parse call
\* fails, and onRoom is not invoked for any room element that closes after the
\* error
C21_ErrorAbortsParse == [][C21_Step]_vars

\* The parse call fails on an error and stays failed
C21_CallFails ==
    [][(ErrorReported => settled' = "rejected")
       /\ (settled = "rejected" => settled' = "rejected")]_vars

\* The step calls onRoomFound
RoomDelivered == Len(delivered') = Len(delivered) + 1

\* The room element whose close the step reports, as the document has it
ClosingElement == openElements[Len(openElements)]

\* The BedType elements of a room element whose text normalizes to a bed type
BedTypeElements(element, type) ==
    { i \in 1..Len(element.contents) :
        /\ element.contents[i].tag.name = "BedType"
        /\ normalizeBedType(element.contents[i].text) = type }

\* The attribute-style Bed elements of a room element of a bed type
BedElements(element, type) ==
    { i \in 1..Len(element.contents) :
        /\ element.contents[i].tag.name = "Bed"
        /\ normalizeBedType(StrOr(Attr(element.contents[i].tag, "type"), "")) = type }

BedTypeNames ==
    {"king", "queen", "double", "twin", "sofabed", "murphy", "bunk", "full", "single"}

\* The bed list has one entry of the type, and its count is n
OneBedEntry(beds, type, n) ==
    /\ Cardinality({ k \in 1..Len(beds) : beds[k].type = type }) = 1
    /\ \A k \in 1..Len(beds) : beds[k].type = type => beds[k].count = n

C22_Step ==
    RoomDelivered =>
        \A type \in BedTypeNames :
            BedTypeElements(ClosingElement, type) # {} =>
                OneBedEntry(delivered'[Len(delivered')].room.beds, type,
                            Cardinality(BedTypeElements(ClosingElement, type)))

C22_AmendedStep ==
    RoomDelivered =>
        \A type \in BedTypeNames :
            (BedTypeElements(ClosingElement, type) # {} /\ BedElements(ClosingElement, type) = {})
            => OneBedEntry(delivered'[Len(delivered')].room.beds, type,
                           Cardinality(BedTypeElements(ClosingElement, type)))

FieldWeights ==
    [name |-> 10, max_occupancy |-> 10, beds |-> 20, photos |-> 20, amenities |-> 20,
     attributes |-> 10, rates |-> 10]

\* A field of a room record is present: a name that is not empty, an
\* occupancy that is a number other than 0, a list with an entry, a class or a
\* view
FieldPresent(room, field) ==
    CASE field = "name" -> room.name # ""
      [] field = "max_occupancy" ->
           room.max_occupancy \notin {None, Some(0), Some(NaN)}
      [] field = "attributes" -> room.attributes.class # "" \/ room.attributes.view # ""
      [] OTHER -> room[field] # <<>>

RECURSIVE SumOfWeights(_)
SumOfWeights(fields) ==
    IF fields = {} THEN 0
    ELSE LET field == CHOOSE f \in fields : TRUE
         IN FieldWeights[field] + SumOfWeights(fields \ {field})

PresentFields(room) == { field \in DOMAIN FieldWeights : FieldPresent(room, field) }

OnlyName(roomData) ==
    /\ roomData.name # ""
    /\ roomData.max_occupancy = None
    /\ roomData.attributes = NoAttributes
    /\ roomData.beds = <<>> /\ roomData.photos = <<>>
    /\ roomData.amenities = <<>> /\ roomData.rates = <<>>

\* The step is a mapRoom call with a name-only record that creates a room
\* and a mapping row
C24_Case ==
    /\ lastOp'.op = "mapRoom"
    /\ OnlyName(lastOp'.roomData)
    /\ Len(rooms') = Len(rooms) + 1
    /\ Len(roomMappings') = Len(roomMappings) + 1

\* The row the step creates carries the ids of the call and the score
C24_Created(score) ==
    LET row == roomMappings'[Len(roomMappings')]
    IN /\ row.roomId = rooms'[Len(rooms')].id
       /\ row.hotelMappingId = HotelMappingIdOf(lastOp'.source, lastOp'.hotelSourceId)
       /\ row.sourceId = lastOp'.roomSourceId
       /\ row.qualityScore = score

StoredSnapshots ==
    { None,
      Some([name |-> "Standard Room", max_occupancy |-> None, beds |-> <<>>,
            photos |-> <<>>, amenities |-> <<>>, attributes |-> NoAttributes,
            rates |-> <<>>]),
      Some([name |-> "Deluxe Room", max_occupancy |-> None, beds |-> <<>>,
            photos |-> Photo1, amenities |-> <<>>, attributes |-> NoAttributes,
            rates |-> <<>>]) }

\* qualityScore of stored rows: an old score, the score of a name, the score
\* of a name with photos
StoredScores == {0, 10, 30}

\* A RoomMapping row as an earlier version of the scorer left it
StoredMapping(roomSourceId, sourceData, qualityScore) ==
    [roomId |-> 1,
     hotelMappingId |-> "hm_a",
     source |-> "provider_a",
     sourceId |-> roomSourceId,
     sourceData |-> sourceData,
     confidence |-> DefaultConfidence,
     mappingType |-> "auto",
     isPrimary |-> FALSE,
     lastSyncedAt |-> 0,
     qualityScore |-> qualityScore]

StoredMappingTables ==
    { <<StoredMapping("r_src_1", d1, q1), StoredMapping("r_src_2", d2, q2)>> :
          d1 \in StoredSnapshots, q1 \in StoredScores,
          d2 \in StoredSnapshots, q2 \in StoredScores }

RecalcInit ==
    /\ rooms = <<[id |-> 1, hotelId |-> "h_1", name |-> "Standard Room",
                  description |-> None, maxOccupancy |-> DefaultMaxOccupancy]>>
    /\ roomMappings \in StoredMappingTables
    /\ conflicts = <<>>
    /\ enrichments = <<>>
    /\ events = <<>>
    /\ clock = 0
    /\ lastOp = [op |-> "none", result |-> "ok"]
    /\ NoCalls
    /\ ParserInit

\* The backfill runs, and a feed re-delivers the first room in between
RecalcNext ==
    \/ BulkRecalculateQualityScores
    \/ \E roomData \in RoomInputs :
          MapRoom("h_src_1", "r_src_1", "provider_a", roomData, DefaultOptions)

RecalcSpec == RecalcInit /\ [][RecalcNext]_vars

\* Rows whose stored score is not the sum of the weights of the fields of
\* their stored snapshot
StaleRows(mappings) ==
    { i \in 1..Len(mappings) :
         /\ mappings[i].sourceData # None
         /\ mappings[i].qualityScore # SumOfWeights(PresentFields(mappings[i].sourceData[1])) }

C25_Run == lastOp'.op = "bulkRecalculateQualityScores" /\ clock' = clock + 1

C25_Step ==
    C25_Run =>
        /\ Len(roomMappings') = Len(roomMappings)
        /\ \A i \in 1..Len(roomMappings) :
              IF i \in StaleRows(roomMappings)
              THEN roomMappings'[i] =
                      [roomMappings[i] EXCEPT !.qualityScore =
                          SumOfWeights(PresentFields(roomMappings[i].sourceData[1]))]
              ELSE roomMappings'[i] = roomMappings[i]
        /\ lastOp'.updatedCount = Cardinality(StaleRows(roomMappings))
        /\ StaleRows(roomMappings') = {}
        /\ lastOp.op = "bulkRecalculateQualityScores" => lastOp'.updatedCount = 0

\* C25: bulkRecalculateQualityScores writes a RoomMapping row only if the
\* score recomputed from its stored sourceData differs from its stored
\* qualityScore, and returns the number of rows it wrote; afterwards every row
\* with a snapshot holds the score of that snapshot, and an immediate second
\* run returns 0
C25_BackfillWritesStaleRows == [][C25_Step]_vars

\* A run wrote one row and left a row without a snapshot alone, and the run
\* after it returned 0
C25_Witness ==
    /\ lastOp.op = "bulkRecalculateQualityScores"
    /\ lastOp.updatedCount = 0
    /\ clock = 2
    /\ Len(roomMappings) = 2
    /\ roomMappings[1].sourceData # None
    /\ roomMappings[1].qualityScore = 30
    /\ roomMappings[2].sourceData = None
    /\ roomMappings[2].qualityScore = 0

\* The entries of the sequence sources that a call of source leaves alone: all
\* but the entries of that source
OtherEntries(sources, source) ==
    SelectSeq(sources, LAMBDA entry : entry.source # source)

\* The step is a mapRoom call that wrote into conflict c, open before it
C26_UpsertsInto(c) ==
    /\ lastOp'.op = "mapRoom"
    /\ clock' = clock + 1
    /\ conflicts[c].status = "open"
    /\ conflicts'[c] # conflicts[c]

C26_Step ==
    \A c \in 1..Len(conflicts) :
       /\ c <= Len(conflicts')
       /\ EntriesOf(conflicts'[c], "internal") = EntriesOf(conflicts[c], "internal")
       /\ \A k \in EntriesOf(conflicts[c], "internal") :
             conflicts'[c].conflictingSources[k] = conflicts[c].conflictingSources[k]
       /\ C26_UpsertsInto(c) =>
             /\ OtherEntries(conflicts'[c].conflictingSources, lastOp'.source) =
                   OtherEntries(conflicts[c].conflictingSources, lastOp'.source)
             /\ \A k \in 1..Len(conflicts[c].conflictingSources) :
                   conflicts[c].conflictingSources[k].source # lastOp'.source =>
                      conflicts'[c].conflictingSources[k] =
                         conflicts[c].conflictingSources[k]

\* C26: the "internal" entry of a conflict is written only when the conflict
\* is created: no step changes, adds or removes an internal entry of a
\* conflict that exists, and a mapRoom call that upserts its source's entry
\* into an open conflict leaves the internal entry (value and detectedAt) and
\* the entries of all other sources as they were, each at its place
C26_InternalEntryWrittenOnce == [][C26_Step]_vars

\* provider_a's entry of a conflict was replaced after provider_b's entry was
\* added: the internal entry and provider_b's entry are older than provider_a's
C26_Witness ==
    /\ lastOp.op = "mapRoom"
    /\ lastOp.source = "provider_a"
    /\ \E c \in 1..Len(conflicts) :
          /\ conflicts[c].status = "open"
          /\ Len(conflicts[c].conflictingSources) = 3
          /\ conflicts[c].conflictingSources[1].source = "internal"
          /\ conflicts[c].conflictingSources[1].detectedAt < clock
          /\ conflicts[c].conflictingSources[2].source = "provider_a"
          /\ conflicts[c].conflictingSources[2].detectedAt = clock
          /\ conflicts[c].conflictingSources[3].source = "provider_b"
          /\ conflicts[c].conflictingSources[3].detectedAt < clock
          /\ conflicts[c].conflictingSources[3].detectedAt >
                conflicts[c].conflictingSources[1].detectedAt

\* The step is a mapRoom call that created a canonical Room
C27_Creates ==
    /\ lastOp'.op = "mapRoom"
    /\ clock' = clock + 1
    /\ Len(rooms') = Len(rooms) + 1

\* attributes.class and attributes.view of a record, those present, joined
C27_Description(attributes) ==
    CASE attributes.class # "" /\ attributes.view # "" ->
            Some(attributes.class \o ", " \o attributes.view)
      [] attributes.class # "" /\ attributes.view = "" -> Some(attributes.class)
      [] attributes.class = "" /\ attributes.view # "" -> Some(attributes.view)
      [] OTHER -> None

C27_Step ==
    C27_Creates =>
        LET created == rooms'[Len(rooms')]
            roomData == lastOp'.roomData
        IN /\ created.maxOccupancy = IF roomData.max_occupancy # None
                                     THEN roomData.max_occupancy[1]
                                     ELSE 2
           /\ created.description = C27_Description(roomData.attributes)

\* C27: a canonical Room created by mapRoom has the incoming max_occupancy as
\* its maxOccupancy whenever the record carries one, whatever integer it is,
\* and 2 only when the record carries none; its description is the present
\* attributes.class and attributes.view joined by a comma, or empty when
\* neither is present
C27_CreatedRoomFields == [][C27_Step]_vars

C27_NonZeroStep ==
    (C27_Creates /\ lastOp'.roomData.max_occupancy # Some(0)) => C27_Step

\* The same for records whose max_occupancy is absent or not 0
C27_CreatedRoomFieldsNonZero == [][C27_NonZeroStep]_vars

\* Feed documents about rates: room elements with Rate / RatePlan elements,
\* Total elements with a currency and Amount elements without one
RateTags ==
    { [name |-> "Room", attributes |-> {<<"id", "R1">>, <<"name", "Deluxe King">>}],
      [name |-> "RatePlan", attributes |-> {<<"code", "BAR">>, <<"id", "rate_123">>}],
      [name |-> "Rate", attributes |-> {}],
      [name |-> "Total", attributes |-> {<<"currency", "GBP">>}],
      [name |-> "Total", attributes |-> {<<"currency", "EUR">>}],
      [name |-> "Amount", attributes |-> {}] }

RateTexts == {" ", "150.00"}

RateNext ==
    \/ \E tag \in RateTags : OpenTag(tag)
    \/ \E chunk \in RateTexts : Text(chunk)
    \/ CloseTag
    \/ End

RateSpec == Init /\ [][RateNext]_vars

\* The ids of the rates that the Rate / RatePlan elements of a room element
\* stand for, in the order the elements closed: the id on the tag, or the one
\* made up for the element
RateIdsOf(contents) ==
    LET rateElements == SelectSeq(contents, LAMBDA child : IsRateTag(child.tag.name))
    IN [i \in 1..Len(rateElements) |->
           StrOr(Attr(rateElements[i].tag, "id"),
                 "rate_" \o ToString(rateElements[i].position))]

\* The ids of a rates list
IdsOf(rates) == [i \in 1..Len(rates) |-> rates[i].id]

\* The step reports the close of a Rate / RatePlan element that is inside a
\* room element
C28_RateCloses ==
    /\ eventCount' = eventCount + 1
    /\ Len(openElements') = Len(openElements) - 1
    /\ IsRateTag(ClosingElement.tag.name)
    /\ NearestRoom(openElements') # 0

C28_Step ==
    /\ C28_RateCloses => currentRate' = None
    /\ RoomDelivered =>
          IdsOf(delivered'[Len(delivered')].room.rates) = RateIdsOf(ClosingElement.contents)

\* C28: every Rate / RatePlan element that opens and closes inside a room
\* contributes exactly one rate to that room's rates list, in the order the
\* elements close, and after its close no rate is in progress
C28_OneRatePerElement == [][C28_Step]_vars

\* Element i of contents is inside a Rate / RatePlan element of contents
RECURSIVE WithinRate(_, _)
WithinRate(contents, i) ==
    \E j \in 1..Len(contents) :
       /\ contents[j].position = contents[i].parent
       /\ IsRateTag(contents[j].tag.name) \/ WithinRate(contents, j)

\* The contents of a room element hold no room element
NoRoomWithin(contents) ==
    \A i \in 1..Len(contents) : ~IsRoomTag(contents[i].tag.name)

\* The contents of a room element hold no Rate / RatePlan element that is
\* inside another
NoRateWithinRate(contents) ==
    \A i \in 1..Len(contents) : IsRateTag(contents[i].tag.name) => ~WithinRate(contents, i)

\* No Rate / RatePlan element is open
NoRateOpen(elements) ==
    \A i \in 1..Len(elements) : ~IsRateTag(elements[i].tag.name)

C28_FlatStep ==
    /\ (/\ C28_RateCloses
        /\ NoRateOpen(openElements')
        /\ NoRoomWithin(openElements'[NearestRoom(openElements')].contents))
       => currentRate' = None
    /\ (/\ RoomDelivered
        /\ NoRoomWithin(ClosingElement.contents)
        /\ NoRateWithinRate(ClosingElement.contents))
       => IdsOf(delivered'[Len(delivered')].room.rates) = RateIdsOf(ClosingElement.contents)

\* The same for room elements that hold no room element and no Rate /
\* RatePlan element inside another
C28_OneRatePerFlatElement == [][C28_FlatStep]_vars

\* Element j of the contents of a room element is inside the element that
\* opened at event number position
RECURSIVE Inside(_, _, _)
Inside(contents, j, position) ==
    \/ contents[j].parent = position
    \/ \E k \in 1..Len(contents) :
          /\ contents[k].position = contents[j].parent
          /\ Inside(contents, k, position)

\* The Rate / RatePlan elements of a room element whose rate the room is
\* delivered with: those that hold no Rate / RatePlan element and closed
\* before any room element inside the room element did
Pushed(contents) ==
    { i \in 1..Len(contents) :
        /\ IsRateTag(contents[i].tag.name)
        /\ \A j \in 1..(i - 1) :
              /\ ~IsRoomTag(contents[j].tag.name)
              /\ IsRateTag(contents[j].tag.name) =>
                    ~Inside(contents, j, contents[i].position) }

\* The k-th of a set of indices, in increasing order
Kth(indices, k) ==
    CHOOSE i \in indices : Cardinality({j \in indices : j <= i}) = k

\* The Amount / Total elements that closed inside element i
AmountsIn(contents, i) ==
    { j \in 1..(i - 1) :
        /\ contents[j].tag.name \in {"Amount", "Total"}
        /\ Inside(contents, j, contents[i].position) }

\* Those of them that carry a currency
CurrenciesIn(contents, i) ==
    { j \in AmountsIn(contents, i) : TruthyAttr(Attr(contents[j].tag, "currency")) }

Last(indices) == CHOOSE i \in indices : \A j \in indices : j <= i

CurrencyFields ==
    {"total_currency", "base_currency", "tax_currency", "fee_currency",
     "due_at_accommodation_currency"}

C29_Step ==
    RoomDelivered =>
        LET contents == ClosingElement.contents
            rates == delivered'[Len(delivered')].room.rates
        IN /\ Len(rates) = Cardinality(Pushed(contents))
           /\ \A k \in 1..Len(rates) :
                 LET i == Kth(Pushed(contents), k)
                     currency == IF CurrenciesIn(contents, i) = {} THEN "USD"
                                 ELSE Attr(contents[Last(CurrenciesIn(contents, i))].tag,
                                           "currency")[1]
                 IN /\ \A field \in CurrencyFields : rates[k][field] = currency
                    /\ rates[k].total_amount =
                          IF AmountsIn(contents, i) = {} THEN "0.00"
                          ELSE contents[Last(AmountsIn(contents, i))].text

\* C29: in every rate of an emitted room the five currency fields are equal:
\* "USD" when no Amount / Total element with a currency closed inside the
\* rate's element, otherwise the currency of the last such element; and
\* total_amount is "0.00" unless an Amount / Total element closed inside the
\* rate's element, in which case it is the trimmed text of the last of them
C29_RateCurrenciesAndTotal == [][C29_Step]_vars

\* A room was delivered with a rate of 150.00 GBP
C29_Witness ==
    \E n \in 1..Len(delivered) :
       \E k \in 1..Len(delivered[n].room.rates) :
          /\ delivered[n].room.rates[k].total_amount = "150.00"
          /\ \A field \in CurrencyFields : delivered[n].room.rates[k][field] = "GBP"

\* The step is the tokenizer reporting an open tag, a chunk of text, or a
\* close tag
C30_Opens == eventCount' = eventCount + 1 /\ Len(openElements') = Len(openElements) + 1

C30_Closes == eventCount' = eventCount + 1 /\ Len(openElements') = Len(openElements) - 1

C30_Texts == eventCount' = eventCount + 1 /\ Len(sinceOpenTag') = Len(sinceOpenTag) + 1

C30_Step ==
    /\ C30_Opens => textBuffer' = <<>>
    /\ C30_Closes => textBuffer' = textBuffer
    /\ (C30_Texts /\ currentRoom = None) => textBuffer' = textBuffer
    /\ (C30_Closes /\ currentRoom # None) => Trim(textBuffer) = Trim(sinceOpenTag)

\* C30: the text a close-tag handler uses is the trimmed text received since
\* the most recent open tag: the buffer is emptied at every open tag, is not
\* emptied at a close tag, and text received while no room is in progress is
\* never added to it
C30_BufferSinceOpenTag == [][C30_Step]_vars

\* A Name element closed inside a room: its text, received after its open tag,
\* named the room, and the buffer still holds it
C30_Witness ==
    /\ currentRoom # None
    /\ currentRoom[1].name = "Room 1"
    /\ currentTag = None
    /\ textBuffer # <<>>
    /\ textBuffer = sinceOpenTag

\* Feed documents about bed counts: Bed elements whose count attribute is
\* "0", not a number, or absent, and text-style BedType elements
BedCountTags ==
    { [name |-> "Room", attributes |-> {<<"id", "R1">>, <<"name", "Deluxe King">>}],
      [name |-> "Bed", attributes |-> {<<"type", "King">>, <<"count", "0">>}],
      [name |-> "Bed", attributes |-> {<<"type", "Twin">>, <<"count", "two">>}],
      [name |-> "Bed", attributes |-> {<<"type", "King">>}],
      [name |-> "BedType", attributes |-> {}] }

BedCountTexts == {"King", "Twin"}

BedCountNext ==
    \/ \E tag \in BedCountTags : OpenTag(tag)
    \/ \E chunk \in BedCountTexts : Text(chunk)
    \/ CloseTag
    \/ End

BedCountSpec == Init /\ [][BedCountNext]_vars

\* C31: every bed entry of every emitted room has a count of at least 1, for
\* every combination of attribute-style Bed elements, whatever their count
\* attribute, and text-style BedType elements in the room
C31_BedCountsAtLeastOne ==
    \A n \in 1..Len(delivered) :
       \A k \in 1..Len(delivered[n].room.beds) :
          /\ delivered[n].room.beds[k].count # NaN
          /\ delivered[n].room.beds[k].count >= 1

\* A parse call to its end: a document of room elements read from a stream
\* that ends or fails, with malformed markup possible anywhere in it
SettleTags ==
    { [name |-> "Hotel", attributes |-> {<<"HotelCode", "H100">>}],
      [name |-> "Room", attributes |-> {<<"id", "R1">>, <<"name", "Deluxe King">>}] }

SettleTexts == {" "}

SettleNext ==
    \/ \E tag \in SettleTags : OpenTag(tag)
    \/ \E chunk \in SettleTexts : Text(chunk)
    \/ CloseTag
    \/ ParserError
    \/ End
    \/ StreamError

SettleSpec == Init /\ [][SettleNext]_vars

\* The step is the stream ending, or the stream failing
C32_StreamEnds == stream = "flowing" /\ stream' = "ended"

C32_StreamFails == stream = "flowing" /\ stream' = "errored"

\* The document read when the stream ends is not complete, which closing the
\* parser reports as a parse error
C32_Incomplete == eventCount = 0 \/ openElements # <<>>

C32_Step ==
    /\ settled # "pending" => settled' = settled
    /\ (ErrorReported \/ C32_StreamFails) => settled' = "rejected"
    /\ (C32_StreamEnds /\ C32_Incomplete) => settled' = "rejected"
    /\ (C32_StreamEnds /\ ~C32_Incomplete /\ settled = "pending") => settled' = "resolved"

\* C32: a parse call settles exactly once: when the stream ends and no parse
\* or stream error occurred it completes successfully, in the step that ends
\* the stream; when a parse or stream error occurs it fails; once settled its
\* outcome never changes, so it never reports both outcomes and never
\* completes successfully after an error
C32_SettlesOnce ==
    /\ [](stream = "ended" => settled # "pending")
    /\ [](stream = "errored" => settled = "rejected")
    /\ [][C32_Step]_vars

\* The stream ended on a complete document after malformed markup was
\* reported in it: the call stays failed
C32_Witness ==
    /\ stream = "ended"
    /\ settled = "rejected"
    /\ openElements = <<>>
    /\ eventCount > 0
    /\ delivered # <<>>

\* Source names mapRoom is called with when one source of the HotelMapping
\* table is registered under the name "internal"
AnySources == {"provider_a", "internal"}

AnySourceNext ==
    \E s \in AnySources, d \in RoomInputs :
       MapRoom("h_src_1", "r_src_1", s, d, DefaultOptions)

AnySourceSpec == Init /\ [][AnySourceNext]_vars

\* The source names of the entries of a conflict
SourceNamesOf(conflict) ==
    { conflict.conflictingSources[k].source : k \in 1..Len(conflict.conflictingSources) }

\* C33: in every reachable state the conflictingSources list of every
\* conflict holds at most one entry per source name, "internal" included, for
\* every source name that mapRoom may be called with
C33_OneEntryPerSourceName ==
    \A c \in 1..Len(conflicts) :
       \A name \in SourceNamesOf(conflicts[c]) :
          Cardinality(EntriesOf(conflicts[c], name)) = 1

\* The step is a resolveConflict call on a stored conflict that is resolved
C34_ResolvesAgain ==
    /\ lastOp'.op = "resolveConflict"
    /\ clock' = clock + 1
    /\ lastOp'.conflictId \in 1..Len(conflicts)
    /\ conflicts[lastOp'.conflictId].status = "resolved"

C34_Step ==
    C34_ResolvesAgain =>
        /\ conflicts' = conflicts
        /\ rooms' = rooms
        /\ events' = events

\* C34: a resolveConflict call on a conflict that is already resolved changes
\* nothing: the conflict's resolution and resolvedAt and the canonical
\* entity's field stay as the first resolution left them, and no second
\* conflict:resolved event is emitted
C34_ResolvedStaysAsResolved == [][C34_Step]_vars

\* The step is a mapRoom call after which the conflicts are not what they were
C36_WritesConflict ==
    /\ lastOp'.op = "mapRoom"
    /\ clock' = clock + 1
    /\ conflicts' # conflicts

C36_Step ==
    C36_WritesConflict =>
        /\ lastOp'.roomData.max_occupancy # None
        /\ rooms' = rooms
        /\ \A roomId \in RoomIdsOfCall(roomMappings', lastOp') :
              /\ rooms[roomId].maxOccupancy # lastOp'.roomData.max_occupancy[1]
              /\ \A c \in 1..Len(conflicts') :
                    (c > Len(conflicts) \/ conflicts'[c] # conflicts[c]) =>
                        /\ conflicts'[c].entityType = "room"
                        /\ conflicts'[c].entityId = roomId
                        /\ conflicts'[c].fieldName = "maxOccupancy"

\* C36: mapRoom creates or changes a MappingConflict only when the canonical
\* room's maxOccupancy and the incoming max_occupancy are both present and
\* different, and then only a maxOccupancy conflict of that room; so the call
\* that creates the canonical room records no conflict, and a record without
\* max_occupancy creates or changes none
C36_ConflictOnlyOnMismatch == [][C36_Step]_vars

\* A mapRoom call has just recorded a disagreement with a room that an
\* earlier call created
C36_Witness ==
    /\ lastOp.op = "mapRoom"
    /\ lastOp.roomData.max_occupancy # None
    /\ \E c \in 1..Len(conflicts) :
          /\ conflicts[c].status = "open"
          /\ \E k \in 1..Len(conflicts[c].conflictingSources) :
                /\ conflicts[c].conflictingSources[k].source = lastOp.source
                /\ conflicts[c].conflictingSources[k].detectedAt = clock
                /\ conflicts[c].conflictingSources[k].value = lastOp.roomData.max_occupancy[1]
                /\ rooms[conflicts[c].entityId].maxOccupancy # lastOp.roomData.max_occupancy[1]

\* C35: in the parser, whenever no room is in progress no rate is in
\* progress, for every nesting of Room / GuestRoom and Rate / RatePlan
\* elements in a well-formed document, so that a rate opened inside one room
\* element is never written to while another room element, or none, is in
\* progress
C35_NoRateWithoutRoom == currentRoom = None => currentRate = None

\* ---- bulkRecalculateQualityScores, await by await

\* What the backfill leaves alone
RecalcFrame ==
    UNCHANGED <<rooms, conflicts, enrichments, events, clock, txs, isolation, finished,
                parserVars>>

\* findMany with select { id, sourceData, qualityScore }: the rows as they
\* are when it runs
RecalcFindMany ==
    /\ recalc.pc = "idle"
    /\ recalc' = [pc |-> "loop",
                  mappings |-> [i \in 1..Len(roomMappings) |->
                                   [id |-> i,
                                    sourceData |-> roomMappings[i].sourceData,
                                    qualityScore |-> roomMappings[i].qualityScore]],
                  next |-> 1,
                  updatedCount |-> 0]
    /\ UNCHANGED <<roomMappings, lastOp>>
    /\ RecalcFrame

\* One turn of the loop over the rows read: the row is written, by its id,
\* with the score of the snapshot read if that differs from the score read
RecalcVisit ==
    /\ recalc.pc = "loop"
    /\ recalc.next <= Len(recalc.mappings)
    /\ LET mapping == recalc.mappings[recalc.next]
       IN IF NeedsRecalculation(mapping)
          THEN /\ roomMappings' =
                     [roomMappings EXCEPT ![mapping.id].qualityScore =
                         calculateQualityScore(mapping.sourceData[1])]
               /\ recalc' = [recalc EXCEPT !.next = @ + 1, !.updatedCount = @ + 1]
          ELSE /\ roomMappings' = roomMappings
               /\ recalc' = [recalc EXCEPT !.next = @ + 1]
    /\ UNCHANGED lastOp
    /\ RecalcFrame

\* return updatedCount
RecalcReturn ==
    /\ recalc.pc = "loop"
    /\ recalc.next > Len(recalc.mappings)
    /\ recalc' = [recalc EXCEPT !.pc = "done"]
    /\ lastOp' = [op |-> "bulkRecalculateQualityScores",
                  result |-> "ok",
                  updatedCount |-> recalc.updatedCount]
    /\ UNCHANGED roomMappings
    /\ RecalcFrame

\* One run of the backfill over stored rows while a feed re-delivers the
\* first room, each mapRoom call one transaction
InterleavedNext ==
    \/ RecalcFindMany
    \/ RecalcVisit
    \/ RecalcReturn
    \/ \E roomData \in RoomInputs :
          MapRoom("h_src_1", "r_src_1", "provider_a", roomData, DefaultOptions)

InterleavedSpec == RecalcInit /\ [][InterleavedNext]_vars

\* C37: for every RoomMapping with a sourceData snapshot, qualityScore equals
\* the score of that snapshot in every quiescent state reached by any
\* interleaving of mapRoom calls with a running bulkRecalculateQualityScores
C37_CurrentWhenQuiescent ==
    recalc.pc = "done" => StaleRows(roomMappings) = {}

\* The same when no mapRoom call ran between the backfill's read and its
\* return: the rows are those the backfill read, but for their scores
C37_CurrentWhenNotInterleaved ==
    (/\ recalc.pc = "done"
     /\ lastOp.op = "bulkRecalculateQualityScores"
     /\ \A i \in 1..Len(roomMappings) :
           roomMappings[i].sourceData = recalc.mappings[i].sourceData)
    => StaleRows(roomMappings) = {}

\* ---- C38

\* The hotel a mapRoom call resolved, or None
C38_HotelOf(op) ==
    LET hotelMapping == FindHotelMapping(op.source, op.hotelSourceId)
    IN IF hotelMapping = None THEN None ELSE <<hotelMapping[1].hotelId>>

C38_Step ==
    /\ Len(rooms') >= Len(rooms)
    /\ \A i \in 1..Len(rooms) :
          /\ rooms'[i].id = rooms[i].id
          /\ rooms'[i].hotelId = rooms[i].hotelId
          /\ rooms'[i] # rooms[i] =>
                /\ lastOp'.op = "resolveConflict"
                /\ lastOp'.resolutionStrategy = "apply_source"
                /\ lastOp'.sourceToApply # None
    /\ lastOp'.op = "mapRoom" => SubSeq(rooms', 1, Len(rooms)) = rooms

\* C38: mapRoom never modifies an already existing canonical Room (name,
\* description, maxOccupancy); across any sequence of engine operations a
\* room's field changes only through resolveConflict with apply_source
C38_RoomChangesOnlyByApplySource == [][C38_Step]_vars

\* A mapRoom call has met a room of its hotel and name whose occupancy is
\* not the incoming one
C38_Witness ==
    /\ lastOp.op = "mapRoom"
    /\ C38_HotelOf(lastOp) # None
    /\ TruthyNum(lastOp.roomData.max_occupancy)
    /\ \E i \in 1..Len(rooms) :
          /\ rooms[i].hotelId = C38_HotelOf(lastOp)[1]
          /\ rooms[i].name = lastOp.roomData.name
          /\ rooms[i].maxOccupancy # lastOp.roomData.max_occupancy[1]

\* A resolveConflict call with apply_source has written a room
C38_Applied ==
    /\ lastOp.op = "resolveConflict"
    /\ lastOp.result = "ok"
    /\ lastOp.resolutionStrategy = "apply_source"
    /\ \E c \in 1..Len(conflicts) :
          /\ conflicts[c].id = lastOp.conflictId
          /\ conflicts[c].entityType = "room"
          /\ rooms[conflicts[c].entityId].maxOccupancy # DefaultMaxOccupancy

\* ---- The feed ingestion script: parse with an onRoom callback that calls
\* ---- mapRoom

\* options of the script's mapRoom calls: { confidence: 0.9, isPrimary: true }
DriverOptions == [confidence |-> Some(9), mappingType |-> None, isPrimary |-> Some(TRUE)]

\* if (sourceId && hotelId): whether the callback for room n of the feed
\* calls mapRoom; the call starts inside onRoomFound
CallsMapRoom(n) ==
    TruthyAttr(delivered[n].sourceId) /\ TruthyAttr(delivered[n].hotelId)

\* The rooms of the feed whose mapRoom call has started
Started == {n \in 1..Len(delivered) : CallsMapRoom(n)}

\* await mappingService.mapRoom(...) of the callback for room n returns: the
\* call's transaction has committed. The parser does not wait for it.
MapRoomReturns(n) ==
    LET now == clock + 1
        hotelSourceId == delivered[n].hotelId[1]
        roomSourceId == delivered[n].sourceId[1]
        roomData == delivered[n].room
        hotelMapping == FindHotelMapping("xml_feed_provider", hotelSourceId)
    IN /\ n \in Started \ finished
       /\ clock < MaxClock
       /\ clock' = now
       /\ LET after == IF hotelMapping = None
                       THEN store
                       ELSE MapRoomTx(hotelMapping[1], roomSourceId, "xml_feed_provider",
                                      roomData, DriverOptions, now)
          IN /\ rooms' = after[1]
             /\ roomMappings' = after[2]
             /\ conflicts' = after[3]
             /\ enrichments' = after[4]
       /\ events' = events
       /\ finished' = finished \cup {n}
       /\ UNCHANGED <<txs, isolation, recalc, parserVars>>
       /\ lastOp' = [op |-> "mapRoom",
                     hotelSourceId |-> hotelSourceId,
                     roomSourceId |-> roomSourceId,
                     source |-> "xml_feed_provider",
                     roomData |-> roomData,
                     options |-> DriverOptions,
                     result |-> "ok",
                     warned |-> (hotelMapping = None),
                     repeated |-> SameMapRoomCall(lastOp, hotelSourceId, roomSourceId,
                                                  "xml_feed_provider", roomData)]

\* A feed of one hotel: rooms with a source id, and one without
DriverTags ==
    { [name |-> "Hotel", attributes |-> {<<"HotelCode", "H100">>}],
      [name |-> "Room", attributes |-> {<<"id", "R1">>, <<"name", "Deluxe King">>}],
      [name |-> "Room", attributes |-> {<<"id", "R2">>, <<"name", "Standard Twin">>}],
      [name |-> "Room", attributes |-> {<<"name", "Deluxe King">>}] }

DriverNext ==
    \/ \E tag \in DriverTags : OpenTag(tag)
    \/ CloseTag
    \/ End
    \/ \E n \in 1..MaxEvents : MapRoomReturns(n)

DriverSpec == Init /\ [][DriverNext]_vars

\* The calls that have returned are calls that started
ReturnedWereStarted == finished \subseteq Started

\* The step delivers a room whose callback calls mapRoom
C39_NextCallStarts ==
    /\ Len(delivered') = Len(delivered) + 1
    /\ Len(delivered') \in {n \in 1..Len(delivered') :
                               /\ TruthyAttr(delivered'[n].sourceId)
                               /\ TruthyAttr(delivered'[n].hotelId)}

C39_Step == C39_NextCallStarts => Started \subseteq finished

\* C39: the mapRoom calls issued for the successive rooms of one feed do not
\* overlap: the call for a room has finished before the call for the next
\* room starts, and all of them have finished when parse reports completion
C39_CallsDoNotOverlap ==
    /\ [](settled = "resolved" => Started \subseteq finished)
    /\ [][C39_Step]_vars

\* The first half alone: no call starts while an earlier one is running
C39_OneCallAtATime == [][C39_Step]_vars

\* The second half alone: every call has returned when parse resolves
C39_AllReturnedAtCompletion == settled = "resolved" => Started \subseteq finished
====
